---------------------------- MODULE Spec2Model ----------------------------
(***************************************************************************)
(* warelay: inbound ingestion (poll loop, webhook handler), reply          *)
(* resolution (sessions, templating, external command) and the command     *)
(* runner, modelled from src/src/index.ts.                                 *)
(*                                                                         *)
(* Strings are sequences of one-character strings, so that trimming,       *)
(* prefix tests and slicing are computed as the code computes them.        *)
(***************************************************************************)
EXTENDS Integers, Sequences, FiniteSets, TLC

(***************************************************************************)
(* Bounds of the model.                                                    *)
(***************************************************************************)
MaxMsgs == 2
MaxIterations == 2
MaxResolutions == 2
MaxTicks == 3
MaxStdout == 1
MaxConnections == 2
MaxPushMsgs == 2

MaxTemplateLen == 2

MaxChecks == 3

(***************************************************************************)
(* Values standing for JavaScript's undefined / null.                      *)
(***************************************************************************)
Undefined == "undefined"
NoDate == -1

(***************************************************************************)
(* String helpers (String.prototype.trim, trimStart, startsWith, slice).   *)
(***************************************************************************)
WhiteSpace == {" "}

RECURSIVE TrimStart(_)
TrimStart(s) ==
    IF s = <<>> THEN s
    ELSE IF Head(s) \in WhiteSpace THEN TrimStart(Tail(s)) ELSE s

RECURSIVE TrimEnd(_)
TrimEnd(s) ==
    IF s = <<>> THEN s
    ELSE IF s[Len(s)] \in WhiteSpace THEN TrimEnd(SubSeq(s, 1, Len(s) - 1)) ELSE s

Trim(s) == TrimEnd(TrimStart(s))

StartsWith(s, p) == Len(s) >= Len(p) /\ SubSeq(s, 1, Len(p)) = p

Slice(s, n) == SubSeq(s, n + 1, Len(s))


(***************************************************************************)
(* Optional strings: ctx.Body, ctx.From may be undefined.                  *)
(***************************************************************************)
UndefStr == <<"undefined">>

OrEmpty(s) == IF s = UndefStr THEN <<>> ELSE s

(***************************************************************************)
(* Session configuration defaults (index.ts 552-553, 613-620).             *)
(* A config is a record; an absent numeric field is IdleUnset, an absent   *)
(* or empty resetTriggers list is <<>>, an absent scope is "undefined".    *)
(***************************************************************************)
DEFAULT_RESET_TRIGGER == <<"/", "n", "e", "w">>
DEFAULT_IDLE_MINUTES == 60
IdleUnset == -1

Max(a, b) == IF a >= b THEN a ELSE b

ResetTriggersOf(cfg) ==
    IF cfg.hasSession /\ Len(cfg.resetTriggers) > 0
    THEN cfg.resetTriggers
    ELSE <<DEFAULT_RESET_TRIGGER>>

IdleMinutesOf(cfg) ==
    Max(IF cfg.hasSession /\ cfg.idleMinutes # IdleUnset
        THEN cfg.idleMinutes ELSE DEFAULT_IDLE_MINUTES, 1)

SessionScopeOf(cfg) ==
    IF cfg.hasSession /\ cfg.scope # Undefined THEN cfg.scope ELSE "per-sender"

(***************************************************************************)
(* normalizeE164 (utils): strips the "whatsapp:" prefix of an address.     *)
(* An address is a sequence of tokens, e.g. <<"whatsapp:", "+1">>.         *)
(***************************************************************************)
StripWhatsApp(addr) ==
    IF addr # <<>> /\ Head(addr) = "whatsapp:" THEN Tail(addr) ELSE addr

normalizeE164(addr) == StripWhatsApp(addr)

deriveSessionKey(scope, from) ==
    IF scope = "global" THEN <<"global">>
    ELSE LET f == IF from # UndefStr /\ from # <<>> THEN normalizeE164(from) ELSE <<>>
         IN  IF f # <<>> THEN f ELSE <<"unknown">>

(***************************************************************************)
(* The reset-trigger scan of getReplyFromConfig (index.ts 628-642): the    *)
(* first trigger, in list order, that the trimmed body equals or starts    *)
(* with (followed by a space) wins; empty triggers are skipped.            *)
(* Result: [reset, stripped]; stripped = UndefStr when nothing matched.    *)
(***************************************************************************)
TriggerEquals(trimmedBody, trigger) == trimmedBody = trigger

TriggerPrefixes_NoSpace(trimmedBody, trigger) == StartsWith(trimmedBody, trigger)

TriggerPrefixes(trimmedBody, trigger) == StartsWith(trimmedBody, trigger \o <<" ">>)

RECURSIVE ScanTriggers(_, _)
ScanTriggers(triggers, trimmedBody) ==
    IF triggers = <<>> THEN [reset |-> FALSE, stripped |-> UndefStr]
    ELSE LET trigger == Head(triggers) IN
         IF trigger = <<>> THEN ScanTriggers(Tail(triggers), trimmedBody)
         ELSE IF TriggerEquals(trimmedBody, trigger)
              THEN [reset |-> TRUE, stripped |-> <<>>]
         ELSE IF TriggerPrefixes(trimmedBody, trigger)
              THEN [reset |-> TRUE,
                    stripped |-> TrimStart(Slice(trimmedBody, Len(trigger)))]
         ELSE ScanTriggers(Tail(triggers), trimmedBody)

(***************************************************************************)
(* Session store: a function from session keys to entries                  *)
(* [sessionId, updatedAt].  loadSessionStore / the in-memory update of     *)
(* index.ts 644-657.                                                       *)
(***************************************************************************)
EmptyStore == [k \in {} |-> [sessionId |-> 0, updatedAt |-> 0]]

(* What the store file may be: a JSON object ("mapping", its entries in    *)
(* disk), absent, text that JSON5.parse rejects, a value that is no object *)
(* (a number, a string, null), or a JSON array.                            *)
FileKinds == {"mapping", "missing", "garbage", "scalar", "array"}

ParsesToObject_ArrayRejected(kind) == kind = "mapping"

(* parsed && typeof parsed === "object" (566): true of an array too.       *)
ParsesToObject(kind) == kind \in {"mapping", "array"}

(* loadSessionStore (562-573): the entries the caller reads, and whether   *)
(* the object it got is the parsed array.  An array has no entry under a   *)
(* session key.                                                            *)
loadSessionStore(kind, content) ==
    [entries |-> IF kind = "mapping" THEN content ELSE EmptyStore,
     isArray |-> ParsesToObject(kind) /\ kind = "array"]

(* JSON.stringify(store, null, 2) as written by saveSessionStore           *)
(* (575-585): of an array only its elements, not the property assigned     *)
(* under the session key.                                                  *)
saveSessionStore(isArray, store) ==
    IF isArray THEN [kind |-> "array", content |-> EmptyStore]
    ELSE [kind |-> "mapping", content |-> store]

HasEntry(store, key) == key \in DOMAIN store

FreshEntry_Strict(store, key, idleMinutes, t) ==
    HasEntry(store, key) /\ t - store[key].updatedAt < idleMinutes * 60000

FreshEntry(store, key, idleMinutes, t) ==
    HasEntry(store, key) /\ t - store[key].updatedAt <= idleMinutes * 60000

PutEntry_OnlyKey(store, key, entry) == [k \in {key} |-> entry]

PutEntry(store, key, entry) ==
    [k \in DOMAIN store \cup {key} |-> IF k = key THEN entry ELSE store[k]]

(***************************************************************************)
(* The synchronous session block of getReplyFromConfig (index.ts 627-657), *)
(* up to the await of saveSessionStore.  fresh is the token that           *)
(* crypto.randomUUID() returns.                                            *)
(***************************************************************************)
SessionBlock(cfg, body, from, store, t, fresh) ==
    LET scan     == ScanTriggers(ResetTriggersOf(cfg), Trim(OrEmpty(body)))
        key      == deriveSessionKey(SessionScopeOf(cfg), from)
        reuse    == ~scan.reset /\ FreshEntry(store, key, IdleMinutesOf(cfg), t)
        sid      == IF reuse THEN store[key].sessionId ELSE fresh
    IN  [sessionKey   |-> key,
         sessionId    |-> sid,
         isNewSession |-> ~reuse,
         bodyStripped |-> scan.stripped,
         store        |-> PutEntry(store, key, [sessionId |-> sid, updatedAt |-> t])]


(***************************************************************************)
(* State.                                                                  *)
(*                                                                         *)
(* Shared: disk is the session store file, uuid the next token of          *)
(* crypto.randomUUID(), now the clock (Date.now(), milliseconds).          *)
(*                                                                         *)
(* Relay (monitorTwilio / the webhook POST handler): mode, inbox (the      *)
(* provider's messages), since, seen, iterations, keepRunning, pollPc,     *)
(* tasks (one record per call of getReplyFromConfig made by an ingestor,   *)
(* in dispatch order), refetched (history: the sid a fetch last returned   *)
(* again after it was seen, 0 when none).                                  *)
(*                                                                         *)
(* Resolver (one call of getReplyFromConfig at a time, with its caller and *)
(* runCommandWithTimeout): res (the call's inputs, locals and position),   *)
(* child (the spawned process and the runner's timer), resolved (calls     *)
(* made so far).                                                           *)
(***************************************************************************)
VARIABLES disk, diskKind, uuid, now, ticks,
          mode, inbox, since, seen, iterations, keepRunning, pollPc, tasks,
          refetched,
          res, child, resolved,
          pushPc, keepAlive, aborted, stop, sigint, listeners, reason, surfaced,
          handlers,
          hook,
          render, prereq, browser

sharedVars == <<disk, diskKind, uuid, now, ticks>>
auxVars == <<render, prereq, browser>>
relayVars == <<mode, inbox, since, seen, iterations, keepRunning, pollPc, tasks,
               refetched>>
resolveVars == <<res, child, resolved>>
pushVars == <<pushPc, keepAlive, aborted, stop, sigint, listeners, reason, surfaced,
              handlers>>
vars == <<disk, diskKind, uuid, now, ticks,
          mode, inbox, since, seen, iterations, keepRunning, pollPc, tasks,
          refetched,
          res, child, resolved,
          pushPc, keepAlive, aborted, stop, sigint, listeners, reason, surfaced,
          handlers,
          hook,
          render, prereq, browser>>

MsgIds == 1 .. MaxMsgs

(***************************************************************************)
(* The provider's messages: sid -> [dateCreated, direction].  The sender   *)
(* is fixed per sid.  Three inboxes: distinct creation times (older than,  *)
(* equal to and later than the initial watermark); equal and missing       *)
(* creation times; outbound messages between inbound ones.                 *)
(***************************************************************************)
FromOf(sid) == IF sid % 2 = 1 THEN <<"whatsapp:", "+1">> ELSE <<"whatsapp:", "+2">>
InboxDistinct == [sid \in MsgIds |-> [dateCreated |-> sid, direction |-> "inbound"]]
InboxTies ==
    [sid \in MsgIds |->
        [dateCreated |-> IF sid % 2 = 0 THEN NoDate ELSE 3, direction |-> "inbound"]]
InboxMixed ==
    [sid \in MsgIds |->
        [dateCreated |-> MaxMsgs + 1 - sid,
         direction |-> IF sid % 2 = 0 THEN "outbound-api" ELSE "inbound"]]
Inboxes == {InboxDistinct, InboxTies, InboxMixed}
WebhookInbox == [sid \in MsgIds |-> [dateCreated |-> NoDate, direction |-> "inbound"]]

(***************************************************************************)
(* The configuration the relay runs with: command mode, sessions enabled   *)
(* with the defaults (per-sender scope, "/new", 60 minutes).               *)
(***************************************************************************)
RelayConfig ==
    [hasSession |-> TRUE, scope |-> Undefined, resetTriggers |-> <<>>,
     idleMinutes |-> IdleUnset]
RelayBody == <<"h", "i">>

(***************************************************************************)
(* monitorTwilio's comparator key (index.ts 1590-1592) and the stable      *)
(* sort of Array.prototype.sort.                                           *)
(***************************************************************************)
DateKey(d) == IF d = NoDate THEN 0 ELSE d

CompareCreated(a, b) == DateKey(inbox[a].dateCreated) - DateKey(inbox[b].dateCreated)

RECURSIVE InsertSorted(_, _)
InsertSorted(sorted, m) ==
    IF sorted = <<>> THEN <<m>>
    ELSE IF CompareCreated(m, Head(sorted)) < 0 THEN <<m>> \o sorted
    ELSE <<Head(sorted)>> \o InsertSorted(Tail(sorted), m)

RECURSIVE SortByCreated(_)
SortByCreated(list) ==
    IF list = <<>> THEN <<>>
    ELSE InsertSorted(SortByCreated(SubSeq(list, 1, Len(list) - 1)), list[Len(list)])

RECURSIVE FilterInbound(_)
FilterInbound(list) ==
    IF list = <<>> THEN <<>>
    ELSE IF inbox[Head(list)].direction = "inbound"
         THEN <<Head(list)>> \o FilterInbound(Tail(list))
         ELSE FilterInbound(Tail(list))

(***************************************************************************)
(* updateSince (index.ts 1564-1569).                                       *)
(***************************************************************************)
updateSince_Overwrite(cur, date) ==
    IF date = NoDate THEN cur ELSE date

updateSince(cur, date) ==
    IF date = NoDate THEN cur
    ELSE IF date > cur THEN date ELSE cur

(***************************************************************************)
(* The synchronous start of autoReplyIfConfigured -> getReplyFromConfig    *)
(* for message sid: the session block runs up to the await of              *)
(* saveSessionStore (index.ts 799, 627-658).  st carries the store file    *)
(* as read, and the uuid counter.                                          *)
(***************************************************************************)
StartTask(sid, store, fresh) ==
    LET sb == SessionBlock(RelayConfig, RelayBody, FromOf(sid), store, now, fresh)
    IN  [sid |-> sid, pc |-> "saving",
         sessionKey |-> sb.sessionKey, sessionId |-> sb.sessionId,
         isNewSession |-> sb.isNewSession, store |-> sb.store,
         isArray |-> loadSessionStore(diskKind, disk).isArray]

(***************************************************************************)
(* The for-loop of one poll iteration (index.ts 1595-1603) over the sorted *)
(* batch, as a fold: st = [seen, since, tasks, uuid, refetched].           *)
(***************************************************************************)
SeenCheck_Never(s, sid) == FALSE

SeenCheck(s, sid) == sid \in s

DispatchOne(st, sid) ==
    IF SeenCheck(st.seen, sid) THEN [st EXCEPT !.refetched = sid]
    ELSE LET t == StartTask(sid, loadSessionStore(diskKind, disk).entries, st.uuid)
         IN  [seen  |-> st.seen \cup {sid},
              since |-> updateSince(st.since, inbox[sid].dateCreated),
              tasks |-> Append(st.tasks, t),
              uuid  |-> IF t.isNewSession THEN st.uuid + 1 ELSE st.uuid,
              refetched |-> st.refetched]

RECURSIVE DispatchBatch(_, _)
DispatchBatch(st, batch) ==
    IF batch = <<>> THEN st
    ELSE DispatchBatch(DispatchOne(st, Head(batch)), Tail(batch))

SortBatch_Unsorted(list) == list

SortBatch(list) == SortByCreated(list)



(***************************************************************************)
(* applyTemplate (index.ts 535-541).  A template is a sequence of tokens:  *)
(* a placeholder "{{Key}}" or a literal character; each placeholder is     *)
(* replaced, in one pass, by the context value (the empty string when the  *)
(* key is unknown or its value undefined).  A part that is not a string    *)
(* (the config file is not validated, index.ts 510-517) makes str.replace  *)
(* throw.                                                                  *)
(***************************************************************************)
NonString == "#nonstring"

(* String(value) of a property the context object inherits from           *)
(* Object.prototype, which ctx[key] (538) finds like an own property.      *)
InheritedString == <<"function Object() { [native code] }">>

CtxValue(ctx, token) ==
    CASE token = "{{Body}}" -> OrEmpty(ctx.Body)
      [] token = "{{BodyStripped}}" -> OrEmpty(ctx.BodyStripped)
      [] token = "{{From}}" -> OrEmpty(ctx.From)
      [] token = "{{constructor}}" -> InheritedString
      [] OTHER -> <<>>

Placeholders == {"{{Body}}", "{{BodyStripped}}", "{{From}}", "{{Nope}}", "{{constructor}}"}

RECURSIVE applyTemplate(_, _)
applyTemplate(str, ctx) ==
    IF str = <<>> THEN <<>>
    ELSE (IF Head(str) \in Placeholders THEN CtxValue(ctx, Head(str)) ELSE <<Head(str)>>)
         \o applyTemplate(Tail(str), ctx)

TemplateThrows(part) == part = <<NonString>>

(***************************************************************************)
(* Configurations (WarelayConfig, index.ts 483-508) and inbound contexts   *)
(* the resolver is called with.                                            *)
(***************************************************************************)
CustomTriggers == << <<>>, <<"/", "n">> >>

SessionVariants ==
    {[hasSession |-> TRUE, scope |-> Undefined, resetTriggers |-> <<>>,
      idleMinutes |-> IdleUnset],
     [hasSession |-> TRUE, scope |-> "global", resetTriggers |-> CustomTriggers,
      idleMinutes |-> 0],
     [hasSession |-> TRUE, scope |-> "per-sender", resetTriggers |-> CustomTriggers,
      idleMinutes |-> 1]}

NoSession ==
    [hasSession |-> FALSE, scope |-> Undefined, resetTriggers |-> <<>>,
     idleMinutes |-> IdleUnset]

TextReply ==
    [reply |-> "text", text |-> <<"e", ":", "{{Body}}">>, command |-> <<>>,
     bodyPrefix |-> <<>>]

CommandReplySpec ==
    [reply |-> "command", text |-> <<>>,
     command |-> << <<"c">>, <<"{{Body}}">> >>, bodyPrefix |-> <<"p", ":">>]

ReplyVariants ==
    {[reply |-> "none", text |-> <<>>, command |-> <<>>, bodyPrefix |-> <<>>],
     TextReply,
     CommandReplySpec,
     [reply |-> "command", text |-> <<>>,
      command |-> << <<"c">>, <<NonString>> >>, bodyPrefix |-> <<>>]}

AllowVariants == {<<>>, << <<"+1">> >>}

MkConfig(sv, rv, allow) ==
    [hasSession |-> sv.hasSession, scope |-> sv.scope,
     resetTriggers |-> sv.resetTriggers, idleMinutes |-> sv.idleMinutes,
     reply |-> rv.reply, text |-> rv.text, command |-> rv.command,
     bodyPrefix |-> rv.bodyPrefix, allowFrom |-> allow]

NoConfig == MkConfig(NoSession, [reply |-> "none", text |-> <<>>, command |-> <<>>,
                                 bodyPrefix |-> <<>>], <<>>)

Bodies ==
    {UndefStr, <<>>, <<"h", "i">>,
     <<"/", "n", "e", "w">>, <<"/", "n", "e", "w", " ", "h", "i">>,
     <<"/", "n", "e", "w", "h", "i">>, <<" ", "/", "n", "e", "w", " ", " ", "h", " ">>,
     <<"/", "n">>, <<"/", "n", " ", "h">>}

Froms == {UndefStr, <<"whatsapp:", "+1">>}

(***************************************************************************)
(* The calls made: every body with every session variant (with a text      *)
(* reply), and every reply and allow-list variant, with and without the    *)
(* default session config, with one body.                                  *)
(***************************************************************************)
ResolveInputs ==
    {[body |-> b, from |-> f, cfg |-> MkConfig(sv, TextReply, <<>>)] :
        b \in Bodies, f \in Froms, sv \in SessionVariants}
    \cup
    {[body |-> <<"h", "i">>, from |-> f, cfg |-> MkConfig(sv, rv, allow)] :
        f \in Froms, sv \in {NoSession} \cup {v \in SessionVariants : v.scope = Undefined},
        rv \in ReplyVariants, allow \in AllowVariants}

(***************************************************************************)
(* The resolver's state.                                                   *)
(***************************************************************************)
NoReply == UndefStr
NoCode == -1

IdleRes ==
    [pc |-> "idle", body |-> UndefStr, from |-> UndefStr, cfg |-> NoConfig,
     sessionKey |-> <<>>, sessionId |-> 0, isNewSession |-> FALSE,
     bodyStripped |-> UndefStr, store |-> EmptyStore,
     loaded |-> "none", isArray |-> FALSE,
     started |-> FALSE, replyStarts |-> 0, result |-> NoReply, cause |-> "none",
     timedOut |-> FALSE, sends |-> 0]

NoChild ==
    [phase |-> "none", stdout |-> <<>>, code |-> NoCode, signal |-> "none",
     killed |-> FALSE, timer |-> FALSE, settled |-> FALSE]

(***************************************************************************)
(* What a fetch (client.messages.list) may return: any list of distinct    *)
(* messages of the provider, in any order, already seen ones included.     *)
(***************************************************************************)
Batches ==
    {b \in UNION {[1 .. n -> MsgIds] : n \in 0 .. MaxMsgs} :
        \A i, j \in DOMAIN b : i # j => b[i] # b[j]}

StartSince == 2

InitShared ==
    /\ disk = EmptyStore
    /\ uuid = 1
    /\ now = 0
    /\ ticks = 0
    /\ res = IdleRes
    /\ child = NoChild
    /\ resolved = 0

(* No port preflight has run.                                              *)
NoError == [name |-> "none", code |-> "none", port |-> 0, details |-> UndefStr]

NoPreflight ==
    [bind |-> "none", stdout |-> <<>>, ok |-> FALSE, tester |-> "none",
     bindError |-> NoError, error |-> NoError]

(* Webhook bring-up is not running.  hook is the state of one bring-up:    *)
(* cmd ("up": performUp, "webhook": webhookCommand), pc, attempts (calls   *)
(* retryAsync made), preflights and starts (calls of ensurePortAvailable   *)
(* and startWebhook), strategy and phase (position in updateWebhook),      *)
(* tried (strategies entered, in order), failed, reported (the strategy    *)
(* that logged success, 0 when none), stored (the URL the provider holds   *)
(* for the sender, the phone number and the messaging service), hasHelper  *)
(* (the client has messaging.v2.channelsSenders), errors (runtime.error    *)
(* calls), exitCode, complete ("Setup complete" was logged), failedAt (the *)
(* step whose rejection reached the caller).                               *)
HookOff ==
    [cmd |-> "off", pc |-> "off", attempts |-> 0, preflights |-> 0, starts |-> 0,
     strategy |-> 0, phase |-> "none", tried |-> <<>>, failed |-> {},
     reported |-> 0,
     stored |-> [sender |-> "none", phone |-> "other", service |-> "other"],
     hasHelper |-> TRUE, errors |-> 0, exitCode |-> NoCode, complete |-> FALSE,
     failedAt |-> "none", passed |-> <<>>, port |-> 0, preflight |-> NoPreflight]

(* The push monitor is not running.                                        *)
PushOff ==
    /\ pushPc = "off"
    /\ keepAlive = TRUE
    /\ aborted = FALSE
    /\ stop = FALSE
    /\ sigint = FALSE
    /\ listeners = <<>>
    /\ reason = "none"
    /\ surfaced = <<>>
    /\ handlers = <<>>

(* The template renderer, the prerequisites report and the browser        *)
(* profile routes are not running.                                         *)
RenderOff == [pc |-> "off", str |-> <<>>, ctx |-> [Body |-> UndefStr, BodyStripped |-> UndefStr, From |-> UndefStr], out |-> <<>>]

NoSummary == [ok |-> 0, warning |-> 0, error |-> 0, skipped |-> 0]

PrereqOff ==
    [pc |-> "off", required |-> FALSE, next |-> 0, results |-> <<>>,
     summary |-> NoSummary, hasErrors |-> FALSE, hasWarnings |-> FALSE]

(* The browser profile routes (src/unnamed/part_002 126-191).  A profile   *)
(* map takes profile names to CDP ports; the implicit default profile      *)
(* holds the first port of the range.  Requests are named by the profile   *)
(* they create, so their names are distinct.                               *)
MaxRequests == 3
MaxPorts == 2
DefaultProfile == 0
CdpPortStart == 18800

RequestNames == 1 .. MaxRequests
CdpPorts == CdpPortStart .. CdpPortStart + MaxPorts
NoProfiles == [n \in {} |-> 0]
IdleRequest == [pc |-> "idle", cdpPort |-> 0, nextConfig |-> NoProfiles]

BrowserOff ==
    [pc |-> "off", persisted |-> NoProfiles, resolved |-> NoProfiles,
     requests |-> [n \in RequestNames |-> IdleRequest]]

AuxOff == render = RenderOff /\ prereq = PrereqOff /\ browser = BrowserOff

(* Nothing but the component under study runs: the relay, the resolver,    *)
(* the push monitor and the bring-up are off.                              *)
CoreOff ==
    /\ disk = EmptyStore
    /\ uuid = 1
    /\ now = 0
    /\ ticks = 0
    /\ res = IdleRes
    /\ child = NoChild
    /\ resolved = 0
    /\ diskKind = "mapping"
    /\ pushPc = "off"
    /\ keepAlive = TRUE
    /\ aborted = FALSE
    /\ stop = FALSE
    /\ sigint = FALSE
    /\ listeners = <<>>
    /\ reason = "none"
    /\ surfaced = <<>>
    /\ handlers = <<>>
    /\ hook = HookOff
    /\ mode = "off"
    /\ inbox = WebhookInbox
    /\ since = StartSince
    /\ seen = {}
    /\ iterations = 0
    /\ keepRunning = TRUE
    /\ pollPc = "off"
    /\ tasks = <<>>
    /\ refetched = 0

coreVars == <<sharedVars, relayVars, resolveVars, pushVars, hook>>

InitRelay ==
    /\ PushOff
    /\ hook = HookOff
    /\ InitShared
    /\ AuxOff
    /\ diskKind = "mapping"
    /\ mode \in {"poll", "webhook"}
    /\ inbox \in (IF mode = "poll" THEN Inboxes ELSE {WebhookInbox})
    /\ since = StartSince
    /\ seen = {}
    /\ iterations = 0
    /\ keepRunning = TRUE
    /\ pollPc = IF mode = "poll" THEN "loop" ELSE "off"
    /\ tasks = <<>>
    /\ refetched = 0

LoopCondition_IgnoresSignal == iterations < MaxIterations

(* while (keepRunning && iterations < maxIterations) (1579).               *)
LoopCondition == keepRunning /\ iterations < MaxIterations

(***************************************************************************)
(* monitorTwilio: one iteration whose fetch succeeds (index.ts 1579-1603,  *)
(* 1608): filter, sort, dispatch each unseen message, then sleep.          *)
(***************************************************************************)
PollIteration(batch) ==
    /\ pollPc = "loop"
    /\ LoopCondition
    /\ LET st == DispatchBatch([seen |-> seen, since |-> since,
                                tasks |-> tasks, uuid |-> uuid,
                                refetched |-> refetched],
                               SortBatch(FilterInbound(batch)))
       IN  /\ seen' = st.seen
           /\ since' = st.since
           /\ tasks' = st.tasks
           /\ uuid' = st.uuid
           /\ refetched' = st.refetched
    /\ pollPc' = "sleeping"
    /\ UNCHANGED <<auxVars, hook, pushVars, resolveVars, disk, diskKind, now, ticks, mode, inbox, iterations, keepRunning>>

(* The fetch rejects: the catch logs, nothing else changes (1604-1606);    *)
(* then the sleep (1608).                                                  *)
PollFetchError_DropsSeen ==
    /\ pollPc = "loop"
    /\ LoopCondition
    /\ pollPc' = "caught"
    /\ seen' = {}
    /\ UNCHANGED <<auxVars, hook, pushVars, resolveVars, sharedVars, mode, inbox, since, iterations, keepRunning, tasks, refetched>>

PollFetchError ==
    /\ pollPc = "loop"
    /\ LoopCondition
    /\ pollPc' = "caught"
    /\ UNCHANGED <<auxVars, hook, pushVars, resolveVars, sharedVars, mode, inbox, since, seen, iterations, keepRunning, tasks, refetched>>

(* The sleep ends (1608-1609).                                             *)
PollWake ==
    /\ pollPc \in {"sleeping", "caught"}
    /\ iterations' = iterations + 1
    /\ pollPc' = "loop"
    /\ UNCHANGED <<auxVars, hook, pushVars, resolveVars, sharedVars, mode, inbox, since, seen, keepRunning, tasks, refetched>>

(* The while condition fails (1579): monitorTwilio returns.                *)
PollReturn ==
    /\ pollPc = "loop"
    /\ ~LoopCondition
    /\ pollPc' = "returned"
    /\ UNCHANGED <<auxVars, hook, pushVars, resolveVars, sharedVars, mode, inbox, since, seen, iterations, keepRunning, tasks, refetched>>

(* SIGINT (1572-1576).                                                     *)
PollSigint ==
    /\ mode = "poll"
    /\ keepRunning
    /\ pollPc # "returned"
    /\ keepRunning' = FALSE
    /\ UNCHANGED <<auxVars, hook, pushVars, resolveVars, sharedVars, mode, inbox, since, seen, iterations, pollPc, tasks, refetched>>

(***************************************************************************)
(* The webhook's POST handler (index.ts 986-1009): each request calls      *)
(* getReplyFromConfig at once.                                             *)
(***************************************************************************)
WebhookPost(sid) ==
    /\ mode = "webhook"
    /\ Len(tasks) < MaxMsgs
    /\ LET t == StartTask(sid, loadSessionStore(diskKind, disk).entries, uuid)
       IN  /\ tasks' = Append(tasks, t)
           /\ uuid' = IF t.isNewSession THEN uuid + 1 ELSE uuid
    /\ UNCHANGED <<auxVars, hook, pushVars, resolveVars, disk, diskKind, now, ticks, mode, inbox, since, seen, iterations,
                   keepRunning, pollPc, refetched>>

(***************************************************************************)
(* The asynchronous continuations of one call of getReplyFromConfig and of *)
(* its caller.                                                             *)
(***************************************************************************)
SetPc(i, pc) == [tasks EXCEPT ![i].pc = pc]

(* saveSessionStore completes (575-585, 658): the file now holds the       *)
(* store this call loaded and updated; then onReplyStart is awaited (704). *)
TaskSaveStore(i) ==
    /\ tasks[i].pc = "saving"
    /\ disk' = saveSessionStore(tasks[i].isArray, tasks[i].store).content
    /\ diskKind' = saveSessionStore(tasks[i].isArray, tasks[i].store).kind
    /\ tasks' = SetPc(i, "replyStart")
    /\ UNCHANGED <<auxVars, hook, pushVars, resolveVars, uuid, now, ticks, mode, inbox, since, seen, iterations,
                   keepRunning, pollPc, refetched>>

(* onReplyStart resolved: the command is spawned (705-738).                *)
TaskSpawn(i) ==
    /\ tasks[i].pc = "replyStart"
    /\ tasks' = SetPc(i, "running")
    /\ UNCHANGED <<auxVars, hook, pushVars, resolveVars, sharedVars, mode, inbox, since, seen, iterations, keepRunning, pollPc, refetched>>

(* The command runner settles: a reply text or none (739-779); with a      *)
(* text the caller sends it (806-828, 1011-1017).                          *)
TaskCommandSettles(i, hasReply) ==
    /\ tasks[i].pc = "running"
    /\ tasks' = SetPc(i, IF hasReply THEN "sending" ELSE "done")
    /\ UNCHANGED <<auxVars, hook, pushVars, resolveVars, sharedVars, mode, inbox, since, seen, iterations, keepRunning, pollPc, refetched>>

(* client.messages.create settles (823-838).                               *)
TaskSendSettles(i) ==
    /\ tasks[i].pc = "sending"
    /\ tasks' = SetPc(i, "done")
    /\ UNCHANGED <<auxVars, hook, pushVars, resolveVars, sharedVars, mode, inbox, since, seen, iterations, keepRunning, pollPc, refetched>>

NextRelay ==
    \/ \E batch \in Batches : PollIteration(batch)
    \/ PollFetchError
    \/ PollWake
    \/ PollReturn
    \/ PollSigint
    \/ \E sid \in MsgIds : WebhookPost(sid)
    \/ \E i \in DOMAIN tasks : TaskSaveStore(i)
    \/ \E i \in DOMAIN tasks : TaskSpawn(i)
    \/ \E i \in DOMAIN tasks, hasReply \in BOOLEAN : TaskCommandSettles(i, hasReply)
    \/ \E i \in DOMAIN tasks : TaskSendSettles(i)

SpecRelay == InitRelay /\ [][NextRelay]_vars

(* The loop's own awaits settle: the fetch resolves or rejects and the     *)
(* sleep timer fires (1581, 1608).                                         *)
PollStep ==
    \/ \E batch \in Batches : PollIteration(batch)
    \/ PollFetchError
    \/ PollWake
    \/ PollReturn

(* monitorTwilio by itself: the replies it dispatches with void (1602) are *)
(* not awaited and share none of the loop's variables; their               *)
(* continuations are left pending.                                         *)
InitPoll == InitRelay /\ mode = "poll"

NextPoll == PollStep \/ PollSigint

SpecPollFair == InitPoll /\ [][NextPoll]_vars /\ WF_vars(PollStep)


(***************************************************************************)
(* getReplyFromConfig (index.ts 593-783), one call at a time.              *)
(***************************************************************************)
InitResolve ==
    /\ InitShared
    /\ AuxOff
    /\ diskKind = "mapping"
    /\ PushOff
    /\ hook = HookOff
    /\ mode = "off"
    /\ inbox = WebhookInbox
    /\ since = StartSince
    /\ seen = {}
    /\ iterations = 0
    /\ keepRunning = TRUE
    /\ pollPc = "off"
    /\ tasks = <<>>
    /\ refetched = 0

(* The resolver started on any store file.                                 *)
InitStore ==
    /\ InitShared
    /\ AuxOff
    /\ diskKind \in FileKinds
    /\ PushOff
    /\ hook = HookOff
    /\ mode = "off"
    /\ inbox = WebhookInbox
    /\ since = StartSince
    /\ seen = {}
    /\ iterations = 0
    /\ keepRunning = TRUE
    /\ pollPc = "off"
    /\ tasks = <<>>
    /\ refetched = 0

Blocked_Never(cfg, from) == FALSE

(* The allow-list check (681-691).                                         *)
Blocked(cfg, from) ==
    /\ Len(cfg.allowFrom) > 0
    /\ ~\E i \in DOMAIN cfg.allowFrom : cfg.allowFrom[i] = StripWhatsApp(OrEmpty(from))

(* sessionCtx and templatingCtx (661-679).                                 *)
Coalesce(a, b) == IF a # UndefStr THEN a ELSE b

TemplatingCtx(r) ==
    LET stripped == Coalesce(r.bodyStripped, r.body)
        sessionCtx == [Body |-> r.body, From |-> r.from, BodyStripped |-> stripped]
        bodyPrefix == IF r.cfg.bodyPrefix # <<>>
                      THEN applyTemplate(r.cfg.bodyPrefix, sessionCtx) ELSE <<>>
        prefixedBody == IF bodyPrefix # <<>>
                        THEN bodyPrefix \o OrEmpty(Coalesce(stripped, r.body))
                        ELSE Coalesce(stripped, r.body)
    IN  [Body |-> prefixedBody, From |-> r.from, BodyStripped |-> prefixedBody]

(* The wrapper around opts.onReplyStart (604-609), up to its await:        *)
(* replyStarts counts the calls of the caller's callback.                  *)
onReplyStart(r) ==
    IF r.started THEN r
    ELSE [r EXCEPT !.started = TRUE, !.replyStarts = @ + 1]

AfterSession_StartsTwice(r) ==
    IF Blocked(r.cfg, r.from) THEN [r EXCEPT !.pc = "returned"]
    ELSE IF r.cfg.reply = "none" THEN [r EXCEPT !.pc = "returned"]
    ELSE IF r.cfg.reply = "text" /\ r.cfg.text # <<>>
         THEN [r EXCEPT !.pc = "replyStart", !.started = TRUE, !.replyStarts = @ + 2]
    ELSE IF r.cfg.reply = "command" /\ Len(r.cfg.command) > 0
         THEN [r EXCEPT !.pc = "replyStart", !.started = TRUE, !.replyStarts = @ + 2]
    ELSE [r EXCEPT !.pc = "returned"]

(* From the end of the session block to the first await or return          *)
(* (661-704): the allow-list, the missing reply, then onReplyStart.        *)
AfterSession(r) ==
    IF Blocked(r.cfg, r.from) THEN [r EXCEPT !.pc = "returned"]
    ELSE IF r.cfg.reply = "none" THEN [r EXCEPT !.pc = "returned"]
    ELSE IF r.cfg.reply = "text" /\ r.cfg.text # <<>>
         THEN [onReplyStart(r) EXCEPT !.pc = "replyStart"]
    ELSE IF r.cfg.reply = "command" /\ Len(r.cfg.command) > 0
         THEN [onReplyStart(r) EXCEPT !.pc = "replyStart"]
    ELSE [r EXCEPT !.pc = "returned"]

(* The call: config defaults and the session block, up to the await of     *)
(* saveSessionStore (600-658); without a session config straight on.       *)
Resolve(body, from, cfg) ==
    /\ res.pc \in {"idle", "thrown"}
    /\ resolved < MaxResolutions
    /\ resolved' = resolved + 1
    /\ child' = NoChild
    /\ LET base == [IdleRes EXCEPT !.body = body, !.from = from, !.cfg = cfg]
       IN  IF cfg.hasSession
           THEN LET loaded == loadSessionStore(diskKind, disk)
                    sb == SessionBlock(cfg, body, from, loaded.entries, now, uuid)
                IN  /\ res' = [base EXCEPT !.pc = "saving",
                                           !.loaded = diskKind,
                                           !.isArray = loaded.isArray,
                                           !.sessionKey = sb.sessionKey,
                                           !.sessionId = sb.sessionId,
                                           !.isNewSession = sb.isNewSession,
                                           !.bodyStripped = sb.bodyStripped,
                                           !.store = sb.store]
                    /\ uuid' = IF sb.isNewSession THEN uuid + 1 ELSE uuid
           ELSE /\ res' = AfterSession(base)
                /\ uuid' = uuid
    /\ UNCHANGED <<auxVars, hook, pushVars, relayVars, disk, diskKind, now, ticks>>

(* saveSessionStore completes (575-585, 658).                              *)
SaveSettles ==
    /\ res.pc = "saving"
    /\ disk' = saveSessionStore(res.isArray, res.store).content
    /\ diskKind' = saveSessionStore(res.isArray, res.store).kind
    /\ res' = AfterSession(res)
    /\ UNCHANGED <<auxVars, hook, pushVars, relayVars, uuid, now, ticks, child, resolved>>

(* The argument vector (705-731): every part goes through applyTemplate.   *)
BuildThrows(cfg) == \E i \in DOMAIN cfg.command : TemplateThrows(cfg.command[i])

(* onReplyStart settles (604-609, 698, 704).  A rejection is not caught.   *)
(* Text mode returns the rendered text (700); command mode builds the      *)
(* argument vector and calls the runner, which spawns the child and arms   *)
(* the timer (328-336); the spawn may fail (the child's error event).      *)
ReplyStartSettles(ok, spawned) ==
    /\ res.pc = "replyStart"
    /\ IF ~ok
       THEN /\ res' = [IdleRes EXCEPT !.pc = "thrown", !.cause = "onReplyStart"]
            /\ child' = child
       ELSE IF res.cfg.reply = "text"
       THEN /\ res' = [res EXCEPT !.pc = "returned",
                                  !.result = applyTemplate(res.cfg.text, TemplatingCtx(res))]
            /\ child' = child
       ELSE IF BuildThrows(res.cfg)
       THEN /\ res' = [IdleRes EXCEPT !.pc = "thrown", !.cause = "build"]
            /\ child' = child
       ELSE /\ res' = [res EXCEPT !.pc = "running"]
            /\ child' = [NoChild EXCEPT !.phase = IF spawned THEN "running" ELSE "failed",
                                        !.timer = TRUE]
    /\ UNCHANGED <<auxVars, hook, pushVars, relayVars, sharedVars, resolved>>

(***************************************************************************)
(* runCommandWithTimeout (index.ts 322-357).                               *)
(***************************************************************************)
(* stdout data (338-340).                                                  *)
ChildWrites(chunk) ==
    /\ res.pc = "running" /\ child.phase = "running"
    /\ Len(child.stdout) < MaxStdout
    /\ child' = [child EXCEPT !.stdout = @ \o chunk]
    /\ UNCHANGED <<auxVars, hook, pushVars, relayVars, sharedVars, res, resolved>>

(* The process exits by itself, or is terminated by a signal of another    *)
(* origin; the close event follows when its pipes are closed.              *)
ChildExits(code, signal) ==
    /\ res.pc = "running" /\ child.phase = "running"
    /\ child' = [child EXCEPT !.phase = "exited", !.code = code, !.signal = signal]
    /\ UNCHANGED <<auxVars, hook, pushVars, relayVars, sharedVars, res, resolved>>

TimerFires_KillIgnored(delivered) ==
    /\ res.pc = "running" /\ child.timer /\ ~child.settled
    /\ child.phase \in {"running", "exited"}
    /\ child' = [child EXCEPT !.timer = FALSE]
    /\ res' = res
    /\ UNCHANGED <<auxVars, hook, pushVars, relayVars, sharedVars, resolved>>

(* The timer fires (334-336): child.kill("SIGKILL").  A running child is   *)
(* killed (code null, signal SIGKILL, child.killed = true).  For a child   *)
(* that has exited but not yet closed the signal may or may not still be   *)
(* delivered, which child.killed reports.                                  *)
TimerFires(delivered) ==
    /\ res.pc = "running" /\ child.timer /\ ~child.settled
    /\ child.phase \in {"running", "exited"}
    /\ IF child.phase = "running"
       THEN /\ child' = [child EXCEPT !.phase = "exited", !.code = NoCode,
                                      !.signal = "SIGKILL", !.killed = TRUE,
                                      !.timer = FALSE]
            /\ res' = [res EXCEPT !.timedOut = TRUE]
       ELSE /\ child' = [child EXCEPT !.killed = delivered, !.timer = FALSE]
            /\ res' = res
    /\ UNCHANGED <<auxVars, hook, pushVars, relayVars, sharedVars, resolved>>

ExitFailed_Never(code) == FALSE

(* (code ?? 0) !== 0 (747).                                                *)
ExitFailed(code) == (IF code = NoCode THEN 0 ELSE code) # 0

(* The resolver's reading of the runner's result (739-759).                *)
CommandReply(stdout, code, signal, killed) ==
    IF ExitFailed(code) THEN NoReply
    ELSE IF killed /\ signal = "none" THEN NoReply
    ELSE IF Trim(stdout) = <<>> THEN NoReply
    ELSE Trim(stdout)

(* The close event (350-355): the runner resolves once, the timer is       *)
(* cleared, and the resolver returns what it reads from the result.        *)
ChildClose ==
    /\ res.pc = "running" /\ child.phase = "exited" /\ ~child.settled
    /\ child' = [child EXCEPT !.phase = "closed", !.settled = TRUE, !.timer = FALSE]
    /\ res' = [res EXCEPT !.pc = "returned",
                          !.result = CommandReply(child.stdout, child.code,
                                                  child.signal, child.killed)]
    /\ UNCHANGED <<auxVars, hook, pushVars, relayVars, sharedVars, resolved>>

(* The error event (344-349): the runner rejects; the resolver's catch     *)
(* logs and returns undefined (760-779).                                   *)
ChildError ==
    /\ res.pc = "running" /\ child.phase = "failed" /\ ~child.settled
    /\ child' = [child EXCEPT !.settled = TRUE, !.timer = FALSE]
    /\ res' = [res EXCEPT !.pc = "returned", !.result = NoReply, !.cause = "run"]
    /\ UNCHANGED <<auxVars, hook, pushVars, relayVars, sharedVars, resolved>>

(***************************************************************************)
(* The caller: autoReplyIfConfigured (806-838, the poll path) returns on a *)
(* falsy reply text and on a message without an address, the webhook       *)
(* handler (1011-1024) skips the send on a falsy reply text; otherwise     *)
(* client.messages.create is called once.  When the caller is done the     *)
(* call's frame is gone.                                                   *)
(***************************************************************************)
Callers == {"poll", "webhook"}

CallerContinues(caller) ==
    /\ res.pc = "returned"
    /\ IF \/ res.result = NoReply
          \/ res.result = <<>>
          \/ caller = "poll" /\ res.from = UndefStr
       THEN res' = IdleRes /\ child' = NoChild
       ELSE res' = [res EXCEPT !.pc = "sending", !.sends = @ + 1] /\ child' = child
    /\ UNCHANGED <<auxVars, hook, pushVars, relayVars, sharedVars, resolved>>

SendSettles_Retries(ok) ==
    /\ res.pc = "sending"
    /\ IF ok THEN res' = IdleRes /\ child' = NoChild
       ELSE res' = [res EXCEPT !.sends = 2] /\ child' = child
    /\ UNCHANGED <<auxVars, hook, pushVars, relayVars, sharedVars, resolved>>

(* client.messages.create settles (823-838, 1012-1024): a rejection is     *)
(* caught and logged by logTwilioSendError.                                *)
SendSettles(ok) ==
    /\ res.pc = "sending"
    /\ IF ok THEN res' = IdleRes /\ child' = NoChild
       ELSE res' = [res EXCEPT !.pc = "sendLogged"] /\ child' = child
    /\ UNCHANGED <<auxVars, hook, pushVars, relayVars, sharedVars, resolved>>

(* After the catch the caller runs to its end (838, 1026-1027).            *)
CallerReturns ==
    /\ res.pc = "sendLogged"
    /\ res' = IdleRes
    /\ child' = NoChild
    /\ UNCHANGED <<auxVars, hook, pushVars, relayVars, sharedVars, resolved>>

(* Time passes.  The resolver reads the clock only in its synchronous      *)
(* session block, so the clock advances between calls.                     *)
TickMs == 60000 \div 2

Tick ==
    /\ res.pc \in {"idle", "thrown"}
    /\ ticks < MaxTicks
    /\ now' = now + TickMs
    /\ ticks' = ticks + 1
    /\ UNCHANGED <<auxVars, hook, pushVars, relayVars, resolveVars, disk, diskKind, uuid>>

StdoutChunks == {<<"r">>, <<" ">>}
ExitCodes == {0, 1}

NextResolve ==
    \/ \E in \in ResolveInputs : Resolve(in.body, in.from, in.cfg)
    \/ SaveSettles
    \/ \E ok \in BOOLEAN, spawned \in BOOLEAN : ReplyStartSettles(ok, spawned)
    \/ \E chunk \in StdoutChunks : ChildWrites(chunk)
    \/ \E code \in ExitCodes : ChildExits(code, "none")
    \/ ChildExits(NoCode, "SIGTERM")
    \/ \E delivered \in BOOLEAN : TimerFires(delivered)
    \/ ChildClose
    \/ ChildError
    \/ \E caller \in Callers : CallerContinues(caller)
    \/ \E ok \in BOOLEAN : SendSettles(ok)
    \/ CallerReturns
    \/ Tick

SpecResolve == InitResolve /\ [][NextResolve]_vars

SpecStore == InitStore /\ [][NextResolve]_vars

(* What the runner waits for once the child is spawned: the timer fires    *)
(* unless it was cleared, and the close or error event is emitted.  The    *)
(* child's own exit is not promised.                                       *)
RunnerStep ==
    \/ \E delivered \in BOOLEAN : TimerFires(delivered)
    \/ ChildClose
    \/ ChildError

SpecResolveFair == SpecResolve /\ WF_vars(RunnerStep)

(***************************************************************************)
(* monitorWebProvider (src/unnamed/part_000 16-255): the push monitor.     *)
(*                                                                         *)
(* pushPc is the monitor's position: "top" (44), "connecting" (awaiting    *)
(* listenerFactory, 46), "racing" (awaiting the race of listener.onClose   *)
(* and the abort promise, 218), "closingAbort" (awaiting listener.close(), *)
(* 224), "closingReconnect" (252), "sleeping" (253), "returned", "threw"   *)
(* (the monitor's promise rejected), "exited" (runtime.exit(0), 212).      *)
(* listeners holds one record per listener the factory returned:           *)
(* remote = "open" or "closed" (the connection), closed = listener.close() *)
(* was called.  stop is the stop flag of the current iteration (207).      *)
(* surfaced is the sequence of runtime.error calls.  handlers holds one    *)
(* record per onMessage call.                                              *)
(***************************************************************************)
otherVars == <<relayVars, resolveVars, sharedVars, hook, auxVars>>

InitPush ==
    /\ InitShared
    /\ AuxOff
    /\ diskKind = "mapping"
    /\ hook = HookOff
    /\ mode = "off"
    /\ inbox = WebhookInbox
    /\ since = StartSince
    /\ seen = {}
    /\ iterations = 0
    /\ keepRunning = TRUE
    /\ pollPc = "off"
    /\ tasks = <<>>
    /\ refetched = 0
    /\ pushPc = "top"
    /\ keepAlive \in BOOLEAN
    /\ aborted = FALSE
    /\ stop = FALSE
    /\ sigint = FALSE
    /\ listeners = <<>>
    /\ reason = "none"
    /\ surfaced = <<>>
    /\ handlers = <<>>

stopRequested_Never == FALSE

(* stopRequested (31).                                                     *)
stopRequested == aborted

CloseListener(ls, i) == [ls EXCEPT ![i].closed = TRUE]

CloseCurrent_Skipped(ls) == ls

CloseCurrent(ls) == CloseListener(ls, Len(ls))

(* The loop head (43-46): break when cancelled, else call the factory.     *)
LoopTop ==
    /\ pushPc = "top"
    /\ IF stopRequested THEN pushPc' = "returned"
       ELSE Len(listeners) < MaxConnections /\ pushPc' = "connecting"
    /\ UNCHANGED <<otherVars, keepAlive, aborted, stop, sigint, listeners, reason,
                   surfaced, handlers>>

(* listenerFactory settles (46, 203-218).  Resolved: the listener exists,  *)
(* the SIGINT handler of this iteration is registered with a new stop      *)
(* flag, and without keepAlive the monitor returns at once (216).          *)
(* Rejected: nothing catches it, the monitor's promise rejects.            *)
ConnectSettles(ok) ==
    /\ pushPc = "connecting"
    /\ IF ok
       THEN /\ listeners' = Append(listeners, [remote |-> "open", closed |-> FALSE])
            /\ stop' = FALSE
            /\ pushPc' = IF keepAlive THEN "racing" ELSE "returned"
       ELSE /\ pushPc' = "threw"
            /\ UNCHANGED <<listeners, stop>>
    /\ UNCHANGED <<otherVars, keepAlive, aborted, sigint, reason, surfaced, handlers>>

(* The external cancellation signal is raised (31-38).                     *)
Abort ==
    /\ pushPc \notin {"off", "returned", "threw", "exited"}
    /\ ~aborted
    /\ aborted' = TRUE
    /\ UNCHANGED <<otherVars, pushPc, keepAlive, stop, sigint, listeners, reason,
                   surfaced, handlers>>

(* The abort promise wins the race (218-226): listener.close() is called.  *)
RaceAborted ==
    /\ pushPc = "racing"
    /\ aborted
    /\ reason' = "aborted"
    /\ listeners' = CloseCurrent(listeners)
    /\ pushPc' = "closingAbort"
    /\ UNCHANGED <<otherVars, keepAlive, aborted, stop, sigint, surfaced, handlers>>

LoggedOut_Never(r) == FALSE

(* The close reason marks the session as logged out (232-236).             *)
LoggedOut(r) == r = "loggedOut"

CloseReasons == {"loggedOut", "dropped"}

(* The connection closes remotely and listener.onClose wins the race       *)
(* (218-252).  Logged out: the error is surfaced and the loop breaks.      *)
(* Otherwise the reconnect notice is surfaced and listener.close() called. *)
ConnCloses(r) ==
    /\ pushPc = "racing"
    /\ ~aborted /\ ~stop
    /\ listeners[Len(listeners)].remote = "open"
    /\ LoggedOut(r) \/ Len(listeners) < MaxConnections
    /\ reason' = r
    /\ IF LoggedOut(r)
       THEN /\ listeners' = [listeners EXCEPT ![Len(listeners)].remote = "closed"]
            /\ surfaced' = Append(surfaced, "loggedOut")
            /\ pushPc' = "returned"
       ELSE /\ listeners' = CloseCurrent(
                   [listeners EXCEPT ![Len(listeners)].remote = "closed"])
            /\ surfaced' = Append(surfaced, "reconnecting")
            /\ pushPc' = "closingReconnect"
    /\ UNCHANGED <<otherVars, keepAlive, aborted, stop, sigint, handlers>>

(* After SIGINT closed the listener its onClose settles; stop is set, so   *)
(* the monitor closes and breaks (223-226).                                *)
LocalCloseObserved ==
    /\ pushPc = "racing"
    /\ ~aborted /\ stop
    /\ reason' = "local"
    /\ listeners' = CloseCurrent(
           [listeners EXCEPT ![Len(listeners)].remote = "closed"])
    /\ pushPc' = "closingAbort"
    /\ UNCHANGED <<otherVars, keepAlive, aborted, stop, sigint, surfaced, handlers>>

(* listener.close() settles (224-225, 252).                                *)
CloseSettles ==
    /\ pushPc \in {"closingAbort", "closingReconnect"}
    /\ pushPc' = IF pushPc = "closingAbort" THEN "returned" ELSE "sleeping"
    /\ UNCHANGED <<otherVars, keepAlive, aborted, stop, sigint, listeners, reason,
                   surfaced, handlers>>

(* The fixed delay passes (253).                                           *)
SleepEnds ==
    /\ pushPc = "sleeping"
    /\ pushPc' = "top"
    /\ UNCHANGED <<otherVars, keepAlive, aborted, stop, sigint, listeners, reason,
                   surfaced, handlers>>

(* SIGINT (208-214): every registered handler sets its iteration's stop    *)
(* flag and closes its listener; runtime.exit(0) follows.                  *)
Sigint ==
    /\ pushPc \notin {"off", "exited"}
    /\ Len(listeners) > 0
    /\ ~sigint
    /\ sigint' = TRUE
    /\ stop' = TRUE
    /\ listeners' = [i \in DOMAIN listeners |-> [listeners[i] EXCEPT !.closed = TRUE]]
    /\ UNCHANGED <<otherVars, pushPc, keepAlive, aborted, reason, surfaced, handlers>>

ProcessExit ==
    /\ sigint
    /\ pushPc # "exited"
    /\ pushPc' = "exited"
    /\ UNCHANGED <<otherVars, keepAlive, aborted, stop, sigint, listeners, reason,
                   surfaced, handlers>>

(***************************************************************************)
(* onMessage (part_000 48-200), one record per call: pc is "resolving"     *)
(* (awaiting replyResolver, 55), "sendingMedia" (loadWebMedia and          *)
(* msg.sendMedia, 93-133), "sendingFallback" (msg.reply in the media       *)
(* catch, 160), "sendingText" (165), "done" (returned) or "rejected" (the  *)
(* handler's promise rejected).  logged counts console.error calls, sent   *)
(* the deliveries that succeeded.  A reply has at most one media item.     *)
(***************************************************************************)
ReplyResults == {"none", "text", "media", "mediaText", "rejects"}

NewHandler == [pc |-> "resolving", hasText |-> FALSE, logged |-> 0, sent |-> 0]

(* A message arrives on the active connection (48).                        *)
MessageArrives ==
    /\ pushPc = "racing"
    /\ listeners[Len(listeners)].remote = "open"
    /\ ~listeners[Len(listeners)].closed
    /\ Len(handlers) < MaxPushMsgs
    /\ handlers' = Append(handlers, NewHandler)
    /\ UNCHANGED <<otherVars, pushPc, keepAlive, aborted, stop, sigint, listeners,
                   reason, surfaced>>

(* replyResolver settles (55-85, 164).  The await is outside the try of    *)
(* line 80, so a rejection rejects the handler.                            *)
ResolverSettles(i, result) ==
    /\ pushPc # "exited"
    /\ handlers[i].pc = "resolving"
    /\ handlers' =
         [handlers EXCEPT ![i] =
            CASE result = "rejects" -> [@ EXCEPT !.pc = "rejected"]
              [] result = "none" -> [@ EXCEPT !.pc = "done"]
              [] result = "text" -> [@ EXCEPT !.pc = "sendingText", !.hasText = TRUE]
              [] result = "media" -> [@ EXCEPT !.pc = "sendingMedia"]
              [] OTHER -> [@ EXCEPT !.pc = "sendingMedia", !.hasText = TRUE]]
    /\ UNCHANGED <<otherVars, pushPc, keepAlive, aborted, stop, sigint, listeners,
                   reason, surfaced>>

(* A delivery settles.  Media (92-162): a failure is logged and, with a    *)
(* text, the text is sent alone.  The fallback and the text reply (160,    *)
(* 165): a failure is logged by the outer catch (193-199).                 *)
DeliverySettles(i, ok) ==
    /\ pushPc # "exited"
    /\ handlers[i].pc \in {"sendingMedia", "sendingFallback", "sendingText"}
    /\ handlers' =
         [handlers EXCEPT ![i] =
            IF ok THEN [@ EXCEPT !.pc = "done", !.sent = @ + 1]
            ELSE IF @.pc = "sendingMedia" /\ @.hasText
                 THEN [@ EXCEPT !.pc = "sendingFallback", !.logged = @ + 1]
            ELSE [@ EXCEPT !.pc = "done", !.logged = @ + 1]]
    /\ UNCHANGED <<otherVars, pushPc, keepAlive, aborted, stop, sigint, listeners,
                   reason, surfaced>>

MonitorStep ==
    \/ LoopTop
    \/ \E ok \in BOOLEAN : ConnectSettles(ok)
    \/ RaceAborted
    \/ LocalCloseObserved
    \/ CloseSettles
    \/ SleepEnds

NextPush ==
    \/ LoopTop
    \/ \E ok \in BOOLEAN : ConnectSettles(ok)
    \/ Abort
    \/ RaceAborted
    \/ \E r \in CloseReasons : ConnCloses(r)
    \/ LocalCloseObserved
    \/ CloseSettles
    \/ SleepEnds
    \/ Sigint
    \/ ProcessExit
    \/ MessageArrives
    \/ \E i \in DOMAIN handlers, result \in ReplyResults : ResolverSettles(i, result)
    \/ \E i \in DOMAIN handlers, ok \in BOOLEAN : DeliverySettles(i, ok)

SpecPush == InitPush /\ [][NextPush]_vars

(* The monitor's own awaits settle: the factory, listener.close() and the  *)
(* delay are promises that settle, and a settled race continues.           *)
SpecPushFair == SpecPush /\ WF_vars(MonitorStep)

(***************************************************************************)
(* Webhook bring-up: performUp (index.ts 1769-1818), webhookCommand        *)
(* (logging.ts 658-691) and updateWebhook (index.ts 1347-1487).            *)
(***************************************************************************)
RetryAttempts == 3

DefaultPort == 42873

Ports == {DefaultPort, DefaultPort + 1}

LastStrategy == 5

(* The strategies of updateWebhook in the order of the code: 1 raw JSON    *)
(* request (1358-1390), 2 form-encoded request (1392-1422), 3 SDK helper   *)
(* (1424-1449), 4 incoming phone number (1451-1465), 5 messaging service   *)
(* (1467-1473, 1321-1345).                                                 *)
Strategies == 1 .. LastStrategy

Target(k) == IF k = 4 THEN "phone" ELSE IF k = 5 THEN "service" ELSE "sender"

InitHook ==
    /\ InitShared
    /\ AuxOff
    /\ diskKind = "mapping"
    /\ PushOff
    /\ mode = "off"
    /\ inbox = WebhookInbox
    /\ since = StartSince
    /\ seen = {}
    /\ iterations = 0
    /\ keepRunning = TRUE
    /\ pollPc = "off"
    /\ tasks = <<>>
    /\ refetched = 0
    /\ \E cmd \in {"up", "webhook"}, senderUrl \in {"none", "other"}, helper \in BOOLEAN,
          port \in Ports :
          hook = [HookOff EXCEPT !.cmd = cmd, !.pc = "preflight", !.attempts = 1,
                                 !.stored.sender = senderUrl, !.hasHelper = helper,
                                 !.port = port]

hookOther == <<relayVars, resolveVars, sharedVars, pushVars, auxVars>>

(* What net.createServer().listen(port) reports (396-404): "listening",    *)
(* or an "error" event whose error carries a code.                         *)
BindOutcomes == {"listening", "EADDRINUSE", "EACCES"}

BindError(bind) == [NoError EXCEPT !.name = "Error", !.code = bind]

(* lsof as run by describePortOwner: it fails, or prints nothing but       *)
(* white space, or prints the listener.                                    *)
LsofOutcomes ==
    {[throws |-> TRUE, stdout |-> <<>>],
     [throws |-> FALSE, stdout |-> <<" ">>],
     [throws |-> FALSE, stdout |-> <<"p", " ">>]}

isErrno(err) == err.name # "none" /\ err.code # "none"

(* describePortOwner (376-391): the trimmed output, undefined when lsof    *)
(* fails or prints nothing.                                                *)
describePortOwner(lsof) ==
    IF ~lsof.throws /\ Trim(lsof.stdout) # <<>> THEN Trim(lsof.stdout) ELSE UndefStr

PortInUseError(port, details) ==
    [name |-> "PortInUseError", code |-> "none", port |-> port, details |-> details]

IsAddrInUse_AnyErrno(err) == isErrno(err)

(* isErrno(err) && err.code === "EADDRINUSE" (406).                        *)
IsAddrInUse(err) == isErrno(err) /\ err.code = "EADDRINUSE"

(* ensurePortAvailable (393-412): the result of one call.                  *)
ensurePortAvailable(port, bind, lsof) ==
    LET base == [NoPreflight EXCEPT !.bind = bind]
        err == BindError(bind)
    IN  IF bind = "listening"
        THEN [base EXCEPT !.ok = TRUE, !.tester = "closed"]
        ELSE IF IsAddrInUse(err)
        THEN [base EXCEPT !.bindError = err, !.stdout = lsof.stdout,
                          !.error = PortInUseError(port, describePortOwner(lsof))]
        ELSE [base EXCEPT !.bindError = err, !.error = err]

PreflightResults ==
    {ensurePortAvailable(hook.port, bind, lsof) :
        bind \in BindOutcomes, lsof \in LsofOutcomes}

(* The steps of performUp before updateWebhook (1780-1808), each an await  *)
(* that may reject: the port preflight, the funnel (readEnv, ensureBinary, *)
(* ensureFunnel), the address resolution (getTailnetHostname), the         *)
(* endpoint start (startWebhook), the sender lookup.  A rejection          *)
(* propagates to the caller.                                               *)
UpSequence_StartFirst == <<"preflight", "start", "funnel", "hostname", "sender">>

UpSequence_StartBeforeHostname == <<"preflight", "funnel", "start", "hostname", "sender">>

UpSequence == <<"preflight", "funnel", "hostname", "start", "sender">>

IndexOf(seq, x) == CHOOSE i \in DOMAIN seq : seq[i] = x

UpStep(ok) ==
    /\ hook.cmd = "up"
    /\ hook.pc \in {UpSequence[i] : i \in DOMAIN UpSequence}
    /\ \E r \in PreflightResults :
       /\ hook.pc = "preflight" => r.ok = ok
       /\ LET i == IndexOf(UpSequence, hook.pc)
              counted == [hook EXCEPT
                            !.preflight = IF hook.pc = "preflight" THEN r ELSE @,
                            !.preflights = IF hook.pc = "preflight" THEN @ + 1 ELSE @,
                            !.starts = IF hook.pc = "start" THEN @ + 1 ELSE @]
              went == [counted EXCEPT !.passed = Append(@, hook.pc)]
          IN  hook' = IF ~ok THEN [counted EXCEPT !.pc = "failed", !.failedAt = hook.pc]
                      ELSE IF i < Len(UpSequence)
                           THEN [went EXCEPT !.pc = UpSequence[i + 1]]
                      ELSE [went EXCEPT !.pc = "strategy", !.strategy = 1,
                                        !.phase = "write", !.tried = <<1>>]
    /\ UNCHANGED hookOther

CommandPreflight_Retried(ok) ==
    /\ hook.cmd = "webhook"
    /\ hook.pc = "preflight"
    /\ \E r \in PreflightResults :
       /\ r.ok = ok
       /\ hook' = [hook EXCEPT !.preflight = r,
                            !.preflights = @ + 1,
                            !.pc = IF ok THEN "start" ELSE "retryWait",
                            !.failedAt = IF ok THEN @ ELSE "preflight"]
    /\ UNCHANGED hookOther

(* webhookCommand's port preflight (675), once, before the retry.          *)
CommandPreflight(ok) ==
    /\ hook.cmd = "webhook"
    /\ hook.pc = "preflight"
    /\ \E r \in PreflightResults :
       /\ r.ok = ok
       /\ hook' = [hook EXCEPT !.preflight = r,
                            !.preflights = @ + 1,
                            !.pc = IF ok THEN "start" ELSE "failed",
                            !.failedAt = IF ok THEN @ ELSE "preflight",
                            !.passed = IF ok THEN Append(@, "preflight") ELSE @]
    /\ UNCHANGED hookOther

(* One attempt of retryAsync(() => deps.startWebhook(...), 3, 300)         *)
(* (678-689): on a rejection another attempt follows the delay, until the  *)
(* attempts are used up and the rejection propagates.                      *)
CommandStart(ok) ==
    /\ hook.cmd = "webhook"
    /\ hook.pc = "start"
    /\ hook' = [hook EXCEPT !.starts = @ + 1,
                            !.pc = IF ok THEN "done"
                                   ELSE IF hook.attempts < RetryAttempts
                                        THEN "retryWait" ELSE "failed",
                            !.failedAt = IF ~ok /\ hook.attempts >= RetryAttempts
                                         THEN "start" ELSE @,
                            !.passed = IF ok THEN Append(@, "start") ELSE @]
    /\ UNCHANGED hookOther

RetryDelayEnds ==
    /\ hook.pc = "retryWait"
    /\ hook' = [hook EXCEPT !.attempts = @ + 1, !.pc = "start"]
    /\ UNCHANGED hookOther

NextStrategy_FallThrough(k, succeeded) == k + 1

(* After strategies 1 to 4: return on success, else the next one.          *)
NextStrategy(k, succeeded) == IF succeeded THEN 0 ELSE k + 1

ReturnsBeforeFatal_Always(messagingServiceUpdated) == TRUE

(* if (messagingServiceUpdated) return; (1473).                            *)
ReturnsBeforeFatal(messagingServiceUpdated) == messagingServiceUpdated

ReadBackAccepted_Compared(k, storedUrl) == storedUrl = "intended"

(* What the code accepts as the read-back: strategies 1 and 2 any stored   *)
(* callback or fallback URL (1373-1378, 1405-1410); strategies 3 and 5 do  *)
(* not look at it (1433-1443, 1331-1339).                                  *)
ReadBackAccepted(k, storedUrl) ==
    IF k \in {1, 2} THEN storedUrl # "none" ELSE TRUE

Returned(h) == [h EXCEPT !.pc = "done", !.complete = TRUE]

Fatal(h) == [h EXCEPT !.pc = "exited", !.errors = @ + 3, !.exitCode = 1]

(* The end of one strategy.                                                *)
Settle(h, succeeded) ==
    LET k == h.strategy
        noted == IF succeeded THEN [h EXCEPT !.reported = k, !.phase = "none"]
                 ELSE [h EXCEPT !.failed = @ \cup {k}, !.phase = "none"]
    IN  IF k = LastStrategy
        THEN IF ReturnsBeforeFatal(succeeded) THEN Returned(noted) ELSE Fatal(noted)
        ELSE LET n == NextStrategy(k, succeeded)
             IN  IF n = 0 THEN Returned(noted)
                 ELSE [noted EXCEPT !.strategy = n, !.phase = "write",
                                    !.tried = Append(@, n)]

WriteOutcomes == {"throws", "stored", "ignored", "noTarget"}

(* The write of the current strategy settles.  "noTarget": the client has  *)
(* no helper (1426), no phone number sid (1453-1454), no messaging service *)
(* sid (1327).  "ignored": the provider accepts the request and keeps what *)
(* it had.  Strategy 4 has no read-back (1456-1461).                       *)
StrategyWrite(outcome) ==
    /\ hook.pc = "strategy" /\ hook.phase = "write"
    /\ LET k == hook.strategy IN
       /\ outcome = "noTarget" =>
            \/ k = 3 /\ ~hook.hasHelper
            \/ k \in {4, 5}
       /\ (k = 3 /\ ~hook.hasHelper) => outcome = "noTarget"
       /\ hook' =
            IF outcome \in {"throws", "noTarget"} THEN Settle(hook, FALSE)
            ELSE LET written == IF outcome = "stored"
                                THEN [hook EXCEPT !.stored[Target(k)] = "intended"]
                                ELSE hook
                 IN  IF k = 4 THEN Settle(written, TRUE)
                     ELSE [written EXCEPT !.phase = "read"]
    /\ UNCHANGED hookOther

(* The read-back fetch settles; a rejection is caught as a failure of the  *)
(* strategy (1383-1390, 1415-1422, 1443-1449, 1341-1344).                  *)
StrategyReadBack(ok) ==
    /\ hook.pc = "strategy" /\ hook.phase = "read"
    /\ hook' = IF ~ok THEN Settle(hook, FALSE)
               ELSE Settle(hook, ReadBackAccepted(hook.strategy,
                                                  hook.stored[Target(hook.strategy)]))
    /\ UNCHANGED hookOther

NextHook ==
    \/ \E ok \in BOOLEAN : UpStep(ok)
    \/ \E ok \in BOOLEAN : CommandPreflight(ok)
    \/ \E ok \in BOOLEAN : CommandStart(ok)
    \/ RetryDelayEnds
    \/ \E outcome \in WriteOutcomes : StrategyWrite(outcome)
    \/ \E ok \in BOOLEAN : StrategyReadBack(ok)

SpecHook == InitHook /\ [][NextHook]_vars

(***************************************************************************)
(* applyTemplate by itself (index.ts 535-541): one call on a template and  *)
(* a context.  A context value may itself hold a placeholder.              *)
(***************************************************************************)
TemplateTokens == {"a", "{{Body}}", "{{From}}", "{{Nope}}", "{{constructor}}"}

Templates == UNION {[1 .. n -> TemplateTokens] : n \in 0 .. MaxTemplateLen}

Contexts ==
    {[Body |-> b, BodyStripped |-> b, From |-> f] :
        b \in {UndefStr, <<"x">>, <<"{{From}}">>}, f \in {UndefStr, <<"+", "1">>}}

InitTemplate ==
    /\ CoreOff
    /\ prereq = PrereqOff
    /\ browser = BrowserOff
    /\ \E t \in Templates, c \in Contexts :
          render = [pc |-> "ready", str |-> t, ctx |-> c, out |-> <<>>]

Render ==
    /\ render.pc = "ready"
    /\ render' = [render EXCEPT !.pc = "done",
                                !.out = applyTemplate(render.str, render.ctx)]
    /\ UNCHANGED <<coreVars, prereq, browser>>

NextTemplate == Render

SpecTemplate == InitTemplate /\ [][NextTemplate]_vars

(***************************************************************************)
(* runAllPrerequisiteChecks and runRequiredPrerequisiteChecks              *)
(* (infra/prerequisites.test.ts 566-595, 597-628).  The registered checks  *)
(* are numbered; the odd ones are required.  prereq.next is the position   *)
(* of the loop in the list it runs.                                        *)
(***************************************************************************)
PREREQUISITE_CHECKS == [i \in 1 .. MaxChecks |-> [name |-> i, required |-> i % 2 = 1]]

RECURSIVE FilterRequired(_)
FilterRequired(list) ==
    IF list = <<>> THEN <<>>
    ELSE IF Head(list).required THEN <<Head(list)>> \o FilterRequired(Tail(list))
    ELSE FilterRequired(Tail(list))

(* The list the called function iterates over (569, 598-601).              *)
ChecksToRun(required) ==
    IF required THEN FilterRequired(PREREQUISITE_CHECKS) ELSE PREREQUISITE_CHECKS

(* What one check.check() does: it resolves with a result of one of the    *)
(* four statuses, or it throws an Error.                                   *)
CheckOutcomes == {"ok", "warning", "error", "skipped", "throws"}

(* The result pushed for one check (570-579).                              *)
CheckResult(check, outcome) ==
    IF outcome = "throws"
    THEN [name |-> check.name, status |-> "error", message |-> "Check failed"]
    ELSE [name |-> check.name, status |-> outcome, message |-> "none"]

(* results.filter((r) => r.status === status).length (582-587).            *)
RECURSIVE CountStatus(_, _)
CountStatus(results, status) ==
    IF results = <<>> THEN 0
    ELSE (IF Head(results).status = status THEN 1 ELSE 0)
         + CountStatus(Tail(results), status)

InitPrereq ==
    /\ CoreOff
    /\ render = RenderOff
    /\ browser = BrowserOff
    /\ \E required \in BOOLEAN :
          prereq = [PrereqOff EXCEPT !.pc = "checking", !.required = required,
                                     !.next = 1]

RunCheck_DropsThrown(outcome) ==
    /\ prereq.pc = "checking"
    /\ prereq.next <= Len(ChecksToRun(prereq.required))
    /\ prereq' = [prereq EXCEPT
                     !.next = @ + 1,
                     !.results = IF outcome = "throws" THEN @
                                 ELSE Append(@, CheckResult(ChecksToRun(prereq.required)[prereq.next],
                                                            outcome))]
    /\ UNCHANGED <<coreVars, render, browser>>

(* One turn of the for-loop (569-580): the check settles and its result,   *)
(* or the error result of the catch, is pushed.                            *)
RunCheck(outcome) ==
    /\ prereq.pc = "checking"
    /\ prereq.next <= Len(ChecksToRun(prereq.required))
    /\ prereq' = [prereq EXCEPT
                     !.next = @ + 1,
                     !.results = Append(@, CheckResult(ChecksToRun(prereq.required)[prereq.next],
                                                       outcome))]
    /\ UNCHANGED <<coreVars, render, browser>>

(* After the loop: the summary and the report (582-594).                   *)
Summarise ==
    /\ prereq.pc = "checking"
    /\ prereq.next > Len(ChecksToRun(prereq.required))
    /\ LET summary == [ok |-> CountStatus(prereq.results, "ok"),
                       warning |-> CountStatus(prereq.results, "warning"),
                       error |-> CountStatus(prereq.results, "error"),
                       skipped |-> CountStatus(prereq.results, "skipped")]
       IN  prereq' = [prereq EXCEPT !.pc = "done",
                                    !.summary = summary,
                                    !.hasErrors = summary.error > 0,
                                    !.hasWarnings = summary.warning > 0]
    /\ UNCHANGED <<coreVars, render, browser>>

NextPrereq ==
    \/ \E outcome \in CheckOutcomes : RunCheck(outcome)
    \/ Summarise

SpecPrereq == InitPrereq /\ [][NextPrereq]_vars

(***************************************************************************)
(* Properties of the relay (SpecRelay).                                    *)
(***************************************************************************)
Resolving(t) == t.pc \in {"saving", "replyStart", "running"}
Completed(t) == t.pc = "done"
CreatedKey(t) == DateKey(inbox[t.sid].dateCreated)

(* C1: at most one reply-generation task (a resolver run including its     *)
(* external command) is executing at any time, across all dispatched       *)
(* messages.                                                               *)
C1_SingleFlight ==
    Cardinality({i \in DOMAIN tasks : Resolving(tasks[i])}) <= 1

(* C2: in the poll ingestor a message id is dispatched to reply generation *)
(* at most once, also when later fetches return it again.                  *)
C2_NoDoubleDispatch ==
    mode = "poll" =>
        \A i, j \in DOMAIN tasks : i # j => tasks[i].sid # tasks[j].sid

(* C2 witness: a message came back in a later fetch after it had been      *)
(* dispatched, and there is still exactly one task for it.                 *)
C2_Witness ==
    /\ mode = "poll"
    /\ refetched \in seen
    /\ Cardinality({i \in DOMAIN tasks : tasks[i].sid = refetched}) = 1

(* C3: for resolutions with distinct session keys no read-modify-write of  *)
(* the session store is lost: once all have completed, the file holds the  *)
(* entry written by each of them.                                          *)
C3_NoLostUpdate ==
    (\A i \in DOMAIN tasks : Completed(tasks[i])) =>
        \A i \in DOMAIN tasks :
            (\A j \in DOMAIN tasks : j # i => tasks[j].sessionKey # tasks[i].sessionKey)
            => /\ HasEntry(disk, tasks[i].sessionKey)
               /\ disk[tasks[i].sessionKey].sessionId = tasks[i].sessionId

(* C4: tasks run in FIFO dispatch order: a message's processing has not    *)
(* started while an earlier-dispatched message's processing is incomplete. *)
C4_FifoOrder ==
    \A i, j \in DOMAIN tasks : i < j => Completed(tasks[i])

(* C5: the messages one poll iteration dispatches are dispatched in        *)
(* non-decreasing creation-time order (a missing creation time counts as   *)
(* 0, as in the comparator), whatever order the fetch returned.            *)
C5_BatchOrdered ==
    [][mode = "poll" =>
        \A i, j \in (Len(tasks) + 1) .. Len(tasks') :
            i < j => CreatedKey(tasks'[i]) <= CreatedKey(tasks'[j])]_vars

(* C5 witness: the first iteration dispatched message 2 (no creation time) *)
(* before message 1 (creation time 3).                                     *)
C5_Witness ==
    /\ mode = "poll" /\ iterations = 0 /\ pollPc = "sleeping"
    /\ Len(tasks) = 2
    /\ tasks[1].sid = 2 /\ tasks[2].sid = 1
    /\ CreatedKey(tasks[1]) < CreatedKey(tasks[2])


(* C11: with sessions enabled, when a resolution returns the store file   *)
(* holds, for the derived key, the sessionId used for this message with    *)
(* updatedAt = now.                                                        *)
C11_PersistedOnReturn ==
    [][\A i \in DOMAIN tasks :
          (tasks[i].pc = "running" /\ tasks'[i].pc \in {"sending", "done"})
          => /\ HasEntry(disk', tasks[i].sessionKey)
             /\ disk'[tasks[i].sessionKey].sessionId = tasks[i].sessionId
             /\ disk'[tasks[i].sessionKey].updatedAt = now]_vars

(***************************************************************************)
(* Properties of the resolver and the command runner (SpecResolve).        *)
(***************************************************************************)
(* The reset triggers in force: the configured list, "/new" when none.     *)
ConfiguredTriggers(cfg) ==
    IF cfg.resetTriggers = <<>> THEN << <<"/", "n", "e", "w">> >> ELSE cfg.resetTriggers

(* The idle limit as configured (60 minutes when unset), in milliseconds.  *)
ConfiguredLimitMs(cfg) ==
    (IF cfg.idleMinutes = IdleUnset THEN 60 ELSE cfg.idleMinutes) * 60000

(* The idle limit with the floor of one minute.                            *)
IdleLimitMs(cfg) ==
    IF ConfiguredLimitMs(cfg) < 60000 THEN 60000 ELSE ConfiguredLimitMs(cfg)

NoTriggerMatches(r) ==
    \A i \in DOMAIN ConfiguredTriggers(r.cfg) :
        \/ ConfiguredTriggers(r.cfg)[i] = <<>>
        \/ LET text == Trim(OrEmpty(r.body))
               trigger == ConfiguredTriggers(r.cfg)[i]
           IN  text # trigger /\ ~StartsWith(text, trigger \o <<" ">>)

StoredFresh(key, cfg) ==
    key \in DOMAIN disk /\ now - disk[key].updatedAt <= IdleLimitMs(cfg)

Minted(r) ==
    /\ r.sessionId = uuid - 1
    /\ \A k \in DOMAIN disk : disk[k].sessionId # r.sessionId
    /\ r.store[r.sessionKey].sessionId = r.sessionId

(* A trigger matches a text: equal, or a prefix followed by a space.       *)
MatchesTrigger(text, trigger) ==
    text = trigger \/ StartsWith(text, trigger \o <<" ">>)

(* C6: an exception raised while building the argument vector or running  *)
(* the command never reaches the resolver's caller.                        *)
C6_NeverThrows ==
    res.pc = "thrown" => res.cause \notin {"build", "run"}

(* C7: when the command was force-killed because the timeout elapsed, the  *)
(* resolver returns none and nothing is sent, whatever was on stdout.      *)
C7_TimeoutYieldsNone ==
    res.timedOut =>
        /\ res.pc = "returned" => res.result = NoReply
        /\ res.pc # "sending"

(* C8: a command that exits with a non-zero exit code yields no reply: the *)
(* resolver returns none and its stdout is not sent.                       *)
C8_NonZeroExitYieldsNone ==
    (child.phase = "closed" /\ child.code # NoCode /\ child.code # 0) =>
        /\ res.pc = "returned" => res.result = NoReply
        /\ res.pc # "sending"

(* C8 witness: the command exited with code 1 after writing to stdout and  *)
(* the resolver returned none.                                             *)
C8_Witness ==
    /\ res.pc = "returned" /\ child.phase = "closed"
    /\ child.code = 1 /\ Trim(child.stdout) # <<>>
    /\ res.result = NoReply

(* C9 as claimed: with sessions enabled and no reset trigger matching, the *)
(* stored sessionId of the derived key is reused (isNewSession = FALSE)    *)
(* exactly when an entry exists with now - updatedAt <= idleMinutes *      *)
(* 60000, idleMinutes being the configured value; otherwise a new token is *)
(* minted and isNewSession = TRUE.                                         *)
C9_ConfiguredIdleExpiry ==
    (res.pc = "saving" /\ NoTriggerMatches(res))
    => IF /\ res.sessionKey \in DOMAIN disk
          /\ now - disk[res.sessionKey].updatedAt <= ConfiguredLimitMs(res.cfg)
       THEN ~res.isNewSession /\ res.sessionId = disk[res.sessionKey].sessionId
       ELSE res.isNewSession /\ Minted(res)

(* C9 amended: the same with the idle limit the resolver uses, the         *)
(* configured idleMinutes (60 when unset) raised to at least 1: the stored *)
(* sessionId is reused exactly when an entry exists with                   *)
(* now - updatedAt <= max(idleMinutes, 1) * 60000; otherwise a new token   *)
(* is minted and isNewSession = TRUE.                                      *)
C9_IdleExpiry ==
    (res.pc = "saving" /\ NoTriggerMatches(res))
    => IF StoredFresh(res.sessionKey, res.cfg)
       THEN ~res.isNewSession /\ res.sessionId = disk[res.sessionKey].sessionId
       ELSE res.isNewSession /\ Minted(res)

(* C9 witness: with idleMinutes configured as 0, an entry exactly one      *)
(* minute old is reused.                                                   *)
C9_Witness ==
    /\ res.pc = "saving" /\ NoTriggerMatches(res)
    /\ res.cfg.idleMinutes = 0
    /\ res.sessionKey \in DOMAIN disk
    /\ now - disk[res.sessionKey].updatedAt = 60000
    /\ ~res.isNewSession
    /\ res.sessionId = disk[res.sessionKey].sessionId

(* C10 as claimed: a body that equals a reset trigger, or starts with the  *)
(* trigger followed by a space, always starts a new session with a newly   *)
(* minted sessionId and has the remainder after the trigger as its         *)
(* stripped body (empty for an exact match).                               *)
C10_AnyTriggerResets ==
    (res.pc = "saving" /\ res.body # UndefStr) =>
        \A i \in DOMAIN ConfiguredTriggers(res.cfg) :
            LET trigger == ConfiguredTriggers(res.cfg)[i] IN
            MatchesTrigger(res.body, trigger) =>
                /\ res.isNewSession
                /\ Minted(res)
                /\ Trim(OrEmpty(Coalesce(res.bodyStripped, res.body)))
                     = Trim(Slice(res.body, Len(trigger)))

(* C10 amended: the first non-empty trigger, in list order, that the       *)
(* trimmed body equals or starts with followed by a space starts a new     *)
(* session with a newly minted sessionId that replaces the stored one, and *)
(* the stripped body is the trimmed body's remainder after that trigger    *)
(* without leading whitespace (empty for an exact match); when no          *)
(* non-empty trigger matches in this way (a body that only shares the      *)
(* trigger as a prefix, an empty trigger) the scan resets nothing: the     *)
(* stripped body stays unset and a fresh stored session is reused.         *)
C10_ResetTrigger ==
    res.pc = "saving" =>
        LET triggers == ConfiguredTriggers(res.cfg)
            text == Trim(OrEmpty(res.body))
            hits == {i \in DOMAIN triggers :
                        triggers[i] # <<>> /\ MatchesTrigger(text, triggers[i])}
        IN  IF hits # {}
            THEN LET first == CHOOSE i \in hits : \A j \in hits : i <= j
                     trigger == triggers[first]
                 IN  /\ res.isNewSession
                     /\ Minted(res)
                     /\ res.bodyStripped =
                          (IF text = trigger THEN <<>>
                           ELSE TrimStart(Slice(text, Len(trigger))))
            ELSE /\ res.bodyStripped = UndefStr
                 /\ res.isNewSession = ~StoredFresh(res.sessionKey, res.cfg)

(* C10 witness: "/new hi" arrives while the stored session is fresh; a new *)
(* session starts and the stripped body is "hi".                           *)
C10_Witness ==
    /\ res.pc = "saving"
    /\ StoredFresh(res.sessionKey, res.cfg)
    /\ res.body = DEFAULT_RESET_TRIGGER \o <<" ", "h", "i">>
    /\ res.isNewSession
    /\ res.sessionId # disk[res.sessionKey].sessionId
    /\ res.bodyStripped = <<"h", "i">>

(* The sender of a call is absent from a configured, non-empty allow-list. *)
SenderNotAllowed(r) ==
    /\ r.cfg.allowFrom # <<>>
    /\ LET sender == IF r.from = UndefStr THEN <<>>
                     ELSE IF r.from # <<>> /\ Head(r.from) = "whatsapp:"
                          THEN Tail(r.from) ELSE r.from
       IN  \A i \in DOMAIN r.cfg.allowFrom : r.cfg.allowFrom[i] # sender

MonitorEnded == pushPc \in {"returned", "threw", "exited"}

ActiveListeners == {i \in DOMAIN listeners :
                      listeners[i].remote = "open" /\ ~listeners[i].closed}

(* C13: a close whose reason marks the session as logged out is terminal:  *)
(* the loop has exited, the logged-out error was surfaced to the operator, *)
(* and the monitor never leaves that state, so no connection is            *)
(* established afterwards.                                                 *)
C13_LoggedOutTerminal ==
    reason = "loggedOut" =>
        /\ pushPc \in {"returned", "exited"}
        /\ surfaced # <<>> /\ surfaced[Len(surfaced)] = "loggedOut"
        /\ listeners[Len(listeners)].remote = "closed"

(* C13 witness: after one reconnect the second connection was closed as    *)
(* logged out and the monitor returned.                                    *)
C13_Witness ==
    /\ reason = "loggedOut"
    /\ Len(listeners) = 2
    /\ pushPc = "returned"
    /\ surfaced = <<"reconnecting", "loggedOut">>

(* C14 as claimed: once the cancellation signal is raised the monitor      *)
(* starts no new connection, a connection that is active is closed before  *)
(* the monitor returns, and the monitor's call eventually ends.            *)
C14_CancelStops ==
    /\ [][aborted => (pushPc' = "connecting" => pushPc = "connecting")]_vars
    /\ []((aborted /\ pushPc = "returned") => ActiveListeners = {})
    /\ (aborted ~> MonitorEnded)

(* C14 amended: the same for a monitor run with keepAlive (the default);   *)
(* without keepAlive the monitor returns right after connecting and leaves *)
(* the listener open.                                                      *)
C14_CancelStopsKeepAlive ==
    /\ [][aborted => (pushPc' = "connecting" => pushPc = "connecting")]_vars
    /\ []((keepAlive /\ aborted /\ pushPc = "returned") => ActiveListeners = {})
    /\ (aborted ~> MonitorEnded)

(* C14 witness: cancellation arrived while a connection was active; the    *)
(* monitor closed the listener and returned.                               *)
C14_Witness ==
    /\ keepAlive /\ aborted
    /\ reason = "aborted"
    /\ pushPc = "returned"
    /\ listeners # <<>> /\ listeners[Len(listeners)].closed
    /\ listeners[Len(listeners)].remote = "open"

(* C15: a close that is neither a logged-out close nor caused by           *)
(* cancellation always leads to a reconnect: while no cancellation has     *)
(* arrived the monitor is closing the old listener, waiting the delay,     *)
(* connecting, or listening on a new connection; it has not ended.         *)
C15_ClosedReconnects ==
    (reason = "dropped" /\ ~aborted /\ ~sigint) =>
        /\ pushPc \in {"closingReconnect", "sleeping", "top", "connecting", "racing"}
        /\ pushPc # "racing" => listeners[Len(listeners)].closed
        /\ pushPc = "racing" => ActiveListeners = {Len(listeners)}

(* C16: an error while handling one inbound message (reply resolution or   *)
(* delivery) never propagates out of the message handler.                  *)
C16_HandlerNeverRejects ==
    \A i \in DOMAIN handlers : handlers[i].pc # "rejected"

(***************************************************************************)
(* Properties of webhook bring-up (SpecHook).                              *)
(***************************************************************************)
(* C17: the callback-URL strategies are attempted in one fixed order, each *)
(* only after every earlier one has failed, and once a strategy has        *)
(* succeeded no later strategy is attempted.                               *)
C17_FixedOrder ==
    /\ \A i \in DOMAIN hook.tried : hook.tried[i] = i
    /\ \A i \in DOMAIN hook.tried : \A j \in 1 .. (i - 1) : j \in hook.failed
    /\ hook.reported # 0 =>
          /\ hook.tried[Len(hook.tried)] = hook.reported
          /\ hook.pc = "done"

(* C17 witness: the first three strategies failed, the fourth succeeded    *)
(* and the fifth was not attempted.                                        *)
C17_Witness ==
    /\ hook.tried = <<1, 2, 3, 4>>
    /\ hook.failed = {1, 2, 3}
    /\ hook.reported = 4
    /\ hook.pc = "done"

(* C18: a strategy counts as successful only when its read-back confirms   *)
(* the intended URL: bring-up never reports success while the provider     *)
(* stores another URL (or none) where the strategy wrote.                  *)
C18_SuccessMeansConfirmed ==
    hook.reported # 0 => hook.stored[Target(hook.reported)] = "intended"

(* C19: if every strategy fails, bring-up ends in a fatal error (error     *)
(* messages, then exit with code 1) and never reports success.             *)
C19_AllFailedIsFatal ==
    hook.failed = Strategies =>
        /\ hook.pc = "exited"
        /\ hook.errors >= 1
        /\ hook.exitCode = 1
        /\ hook.reported = 0
        /\ ~hook.complete

(* C19 witness: all five strategies were attempted and failed, and the     *)
(* process exited with code 1.                                             *)
C19_Witness ==
    /\ hook.tried = <<1, 2, 3, 4, 5>>
    /\ hook.failed = Strategies
    /\ hook.pc = "exited"
    /\ hook.exitCode = 1

(* C20: bring-up is attempted a bounded number of times, every attempt     *)
(* runs the whole sequence (so every endpoint start follows a port         *)
(* preflight of its own attempt), and the failure of a step after the      *)
(* preflight reaches the caller only after the last attempt.               *)
C20_RetryWholeSequence ==
    /\ hook.attempts <= RetryAttempts
    /\ hook.starts <= hook.preflights
    /\ (hook.pc = "failed" /\ hook.failedAt \in {"hostname", "start", "sender"})
          => hook.attempts = RetryAttempts

(* The steps the claim names, in the order in which they succeeded.        *)
(***************************************************************************)
(* POST /profiles/create (src/unnamed/part_002 127-191).  browser holds    *)
(* the profiles of the config file (persisted), state.resolved.profiles    *)
(* (resolved) and one record per request: pc is "idle", "writing"          *)
(* (awaiting writeConfigFile, 176), "written" (the file holds nextConfig,  *)
(* the continuation has not run), "created" (res.json ok), "conflict"      *)
(* (409), "full" (507) or "failed" (500).                                  *)
(***************************************************************************)
InitBrowser ==
    /\ CoreOff
    /\ render = RenderOff
    /\ prereq = PrereqOff
    /\ browser = [BrowserOff EXCEPT
                     !.pc = "serving",
                     !.resolved = [n \in {DefaultProfile} |-> CdpPortStart]]

getUsedPorts(profiles) == {profiles[n] : n \in DOMAIN profiles}

(* allocateCdpPort: null (here the empty set) when the range is used up,   *)
(* else some port of the range outside the used set.                       *)
allocateCdpPort(usedPorts) == CdpPorts \ usedPorts

WithProfile(profiles, name, cdpPort) ==
    [n \in DOMAIN profiles \cup {name} |-> IF n = name THEN cdpPort ELSE profiles[n]]

(* The handler up to its await (127-176): loadConfig, the existence check  *)
(* and the port allocation on state.resolved.profiles, nextConfig built    *)
(* from the config as loaded, and the call of writeConfigFile.             *)
CreateProfile(name, cdpPort) ==
    /\ browser.pc = "serving"
    /\ browser.requests[name].pc = "idle"
    /\ LET cfg == browser.persisted
           resolvedProfiles == browser.resolved
           usedPorts == getUsedPorts(resolvedProfiles)
       IN  IF name \in DOMAIN resolvedProfiles
           THEN browser' = [browser EXCEPT !.requests[name].pc = "conflict"]
           ELSE IF allocateCdpPort(usedPorts) = {}
           THEN browser' = [browser EXCEPT !.requests[name].pc = "full"]
           ELSE /\ cdpPort \in allocateCdpPort(usedPorts)
                /\ browser' = [browser EXCEPT
                       !.requests[name] =
                           [pc |-> "writing", cdpPort |-> cdpPort,
                            nextConfig |-> WithProfile(cfg, name, cdpPort)]]
    /\ UNCHANGED <<coreVars, render, prereq>>

(* writeConfigFile writes the file, or fails (176, 188-190).               *)
WriteConfigFile(name, ok) ==
    /\ browser.requests[name].pc = "writing"
    /\ browser' = IF ok
                  THEN [browser EXCEPT !.persisted = browser.requests[name].nextConfig,
                                       !.requests[name].pc = "written"]
                  ELSE [browser EXCEPT !.requests[name].pc = "failed"]
    /\ UNCHANGED <<coreVars, render, prereq>>

(* The continuation after the await (178-187): the runtime state gets the  *)
(* profile and the request is answered ok.                                 *)
CreateResponds(name) ==
    /\ browser.requests[name].pc = "written"
    /\ browser' = [browser EXCEPT
                     !.resolved = WithProfile(@, name, browser.requests[name].cdpPort),
                     !.requests[name].pc = "created"]
    /\ UNCHANGED <<coreVars, render, prereq>>

NextBrowser ==
    \/ \E name \in RequestNames, cdpPort \in CdpPorts : CreateProfile(name, cdpPort)
    \/ \E name \in RequestNames, ok \in BOOLEAN : WriteConfigFile(name, ok)
    \/ \E name \in RequestNames : CreateResponds(name)

SpecBrowser == InitBrowser /\ [][NextBrowser]_vars

NamedSteps ==
    SelectSeq(hook.passed, LAMBDA x : x \in {"preflight", "start", "hostname"})

IsPrefix(s, t) == Len(s) <= Len(t) /\ SubSeq(t, 1, Len(s)) = s

(* C21 (as stated): bring-up runs the port preflight, then the start of    *)
(* the local endpoint, then the resolution of the public address, then the *)
(* callback-URL strategies, each only after the previous one succeeded.    *)
C21_StartBeforeAddress ==
    hook.cmd = "up" =>
        /\ IsPrefix(NamedSteps, <<"preflight", "start", "hostname">>)
        /\ hook.pc = "strategy" => Len(NamedSteps) = 3

(* C21 (amended): bring-up runs the port preflight, then the resolution of *)
(* the public address through the tunnel, then the start of the local      *)
(* endpoint, then the callback-URL strategies, each only after the         *)
(* previous one succeeded.                                                 *)
C21_AddressBeforeStart ==
    hook.cmd = "up" =>
        /\ IsPrefix(NamedSteps, <<"preflight", "hostname", "start">>)
        /\ hook.pc = "hostname" => NamedSteps = <<"preflight">>
        /\ hook.pc = "start" => NamedSteps = <<"preflight", "hostname">>
        /\ hook.pc = "strategy" => Len(NamedSteps) = 3
        /\ hook.starts > 0 => hook.preflights > 0 /\ "hostname" \in {hook.passed[i] : i \in DOMAIN hook.passed}

C21_Witness ==
    hook.cmd = "up" /\ hook.pc = "strategy" /\ hook.phase = "read"
        /\ NamedSteps = <<"preflight", "hostname", "start">>

(* C22: a bind failure because another listener holds the port becomes a   *)
(* PortInUseError carrying the port and the best-effort owner details;     *)
(* every other bind error is propagated unchanged and is not a port-in-use *)
(* error; on a free port the preflight succeeds with the test listener     *)
(* released.                                                               *)
C22_PortPreflightClassifies ==
    hook.preflights > 0 =>
        LET r == hook.preflight IN
        /\ r.bind = "EADDRINUSE" =>
              /\ ~r.ok
              /\ r.error.name = "PortInUseError"
              /\ r.error.port = hook.port
              /\ r.error.details \in {UndefStr, <<"p">>}
              /\ r.error.details = UndefStr <=> r.stdout # <<"p", " ">>
        /\ r.bind \notin {"listening", "EADDRINUSE"} =>
              /\ ~r.ok
              /\ r.error = r.bindError
              /\ r.error.name # "PortInUseError"
        /\ r.bind = "listening" => r.ok /\ r.tester = "closed" /\ r.error = NoError
        /\ r.ok <=> hook.failedAt # "preflight"

C22_Witness ==
    /\ hook.pc = "failed" /\ hook.failedAt = "preflight"
    /\ hook.preflight.bind = "EADDRINUSE"
    /\ hook.preflight.error.details = <<"p">>

(* C23: when the port preflight fails the local endpoint is never started, *)
(* the start is not retried, no other port is tried, and the failure is    *)
(* delivered to the caller.                                                *)
C23_PreflightFailureIsFatal ==
    hook.failedAt = "preflight" =>
        /\ hook.pc = "failed"
        /\ hook.starts = 0
        /\ hook.attempts = 1
        /\ hook.preflights = 1
        /\ hook.passed = <<>>
        /\ ~hook.preflight.ok
        /\ hook.preflight.error.name = "PortInUseError" =>
                hook.preflight.error.port = hook.port

C23_Witness ==
    /\ hook.cmd = "webhook" /\ hook.pc = "failed"
    /\ hook.failedAt = "preflight" /\ hook.preflight.error.name = "PortInUseError"

(* C24: a fetch error does not stop the poll loop: it is caught, since and *)
(* the seen set stay as they were before the iteration, and the loop       *)
(* sleeps and goes on to the next iteration.                               *)
C24_FetchErrorContinues ==
    /\ [](pollPc = "returned" => ~LoopCondition)
    /\ [][pollPc' = "caught" /\ pollPc # "caught" =>
             /\ pollPc = "loop"
             /\ since' = since /\ seen' = seen /\ tasks' = tasks
             /\ iterations' = iterations /\ keepRunning' = keepRunning]_vars
    /\ [][pollPc = "caught" /\ pollPc' # "caught" =>
             /\ pollPc' = "loop"
             /\ iterations' = iterations + 1
             /\ since' = since /\ seen' = seen]_vars

C24_Witness ==
    pollPc = "caught" /\ iterations = 1 /\ seen # {} /\ since > StartSince

(* The fetches monitorTwilio has started: one per completed iteration and  *)
(* the one of the iteration under way.                                     *)
Fetches == iterations + (IF pollPc \in {"sleeping", "caught"} THEN 1 ELSE 0)

(* C25: the poll loop terminates: after the cancellation signal it         *)
(* finishes the iteration under way, starts no further fetch and returns;  *)
(* with the iteration bound n it returns after at most n fetches.          *)
C25_PollTerminates ==
    /\ [](Fetches <= MaxIterations)
    /\ [][~keepRunning => Fetches' = Fetches]_vars
    /\ [][~keepRunning /\ pollPc \in {"sleeping", "caught"} /\ pollPc' # pollPc
             => pollPc' = "loop"]_vars
    /\ (mode = "poll") ~> (pollPc = "returned")

C25_Witness ==
    /\ pollPc = "returned" /\ ~keepRunning
    /\ iterations = 1 /\ iterations < MaxIterations /\ seen # {}

(* C26: the poll watermark since never moves backwards, whatever the       *)
(* batches hold (missing or older creation times included), and after a    *)
(* batch it is at least the creation time of every message newly seen in   *)
(* that batch.                                                             *)
C26_SinceMonotone ==
    [][/\ since' >= since
       /\ \A sid \in seen' \ seen :
             inbox[sid].dateCreated # NoDate => since' >= inbox[sid].dateCreated]_vars

C26_Witness ==
    /\ mode = "poll" /\ since > StartSince
    /\ \E sid \in seen : inbox[sid].dateCreated = NoDate
    /\ \E sid \in seen : inbox[sid].dateCreated = since

(* C27: a process that has not exited when timeoutMs elapses is killed     *)
(* with SIGKILL and the runner's result reports killed = true; every       *)
(* invocation of the runner settles eventually.                            *)
C27_TimeoutKills ==
    /\ [][res.pc = "running" /\ child.phase = "running" /\ child.timer /\ ~child'.timer
            => child'.phase = "exited" /\ child'.signal = "SIGKILL" /\ child'.killed]_vars
    /\ [](child.settled /\ res.timedOut => child.killed /\ child.signal = "SIGKILL")
    /\ (res.pc = "running") ~> (child.settled /\ res.pc = "returned")

C27_Witness ==
    /\ res.pc = "returned" /\ res.timedOut
    /\ child.settled /\ child.killed /\ child.signal = "SIGKILL"

(* The process ended by itself: an exit code and no signal.                *)
NormalExit(c) == c.code # NoCode /\ c.signal = "none"

(* C28: a completed invocation is described by exactly one of normal exit  *)
(* and killed: a process that exited by itself before the timeout is       *)
(* reported with killed = false (it is not killed afterwards); the runner  *)
(* settles once.                                                           *)
C28_ExactlyOneTermination ==
    /\ child.settled /\ child.phase = "closed" /\ NormalExit(child) => ~child.killed
    /\ child.settled => res.pc # "running"

(* C29: onReplyStart is invoked at most once per resolution, and the       *)
(* invocation comes before the command is started (command mode) and       *)
(* before the text reply is returned (text mode).                          *)
C29_ReplyStartOnceAndFirst ==
    /\ [](res.replyStarts <= 1)
    /\ [][res'.replyStarts > res.replyStarts =>
             /\ child'.phase = "none"
             /\ res'.pc = "replyStart"
             /\ res'.result = NoReply]_vars
    /\ [][child.phase = "none" /\ child'.phase # "none" =>
             res.pc = "replyStart" /\ res.replyStarts = 1]_vars
    /\ [][res.pc # "returned" /\ res'.pc = "returned" /\ res'.result # NoReply
             /\ res.cfg.reply = "text" =>
             res.pc = "replyStart" /\ res.replyStarts = 1]_vars

C29_Witness ==
    /\ res.pc = "running" /\ child.phase = "running"
    /\ res.started /\ res.replyStarts = 1 /\ resolved = 2

(* C30: a failure of the onReplyStart callback is caught and ignored by    *)
(* the resolver: the resolution does not end with that failure thrown to   *)
(* the caller, it goes on to the text or the command as after a success.   *)
C30_ReplyStartFailureIgnored ==
    [][res.pc = "replyStart" /\ res'.pc # "replyStart" =>
          /\ ~(res'.pc = "thrown" /\ res'.cause = "onReplyStart")
          /\ res.cfg.reply = "text" => res'.pc = "returned"
          /\ res.cfg.reply = "command" /\ ~BuildThrows(res.cfg) => res'.pc = "running"]_vars

(* C31: a missing or corrupt store file is treated as an empty mapping:    *)
(* loading does not fail, the resolution goes on with a newly minted       *)
(* session, and the store is rewritten (it then holds that session).       *)
C31_CorruptStoreRecovered ==
    [][res.pc = "saving" /\ res'.pc # "saving" /\ res.loaded # "mapping" =>
          /\ res.isNewSession
          /\ res'.pc # "thrown"
          /\ diskKind' = "mapping"
          /\ DOMAIN disk' = {res.sessionKey}
          /\ disk'[res.sessionKey].sessionId = res.sessionId]_vars

(* What the claim says one token renders to: the value of a key the       *)
(* context holds, nothing for any other key, a literal as it is.           *)
ClaimedToken(ctx, token) ==
    IF token \in {"{{Body}}", "{{BodyStripped}}"} /\ ctx.Body # UndefStr THEN ctx.Body
    ELSE IF token = "{{From}}" /\ ctx.From # UndefStr THEN ctx.From
    ELSE IF token \in Placeholders THEN <<>>
    ELSE <<token>>

RECURSIVE ClaimedRendering(_, _)
ClaimedRendering(str, ctx) ==
    IF str = <<>> THEN <<>>
    ELSE ClaimedToken(ctx, Head(str)) \o ClaimedRendering(Tail(str), ctx)

(* C32: rendering replaces every placeholder by the string form of the     *)
(* context value, renders an unknown or null-valued key as the empty       *)
(* string, and makes one pass: a placeholder inside a substituted value    *)
(* stays as it is.                                                         *)
C32_TemplateRendering ==
    render.pc = "done" => render.out = ClaimedRendering(render.str, render.ctx)

(* C33: the prerequisites report holds exactly one result per check that   *)
(* was run, also when a check throws (an error result, nothing             *)
(* propagates); the summary counts add up to the number of results; and    *)
(* hasErrors holds exactly when the error count is positive.               *)
C33_ReportConsistent ==
    /\ prereq.pc \in {"off", "checking", "done"}
    /\ prereq.pc = "done" =>
        LET run == {i \in 1 .. MaxChecks : prereq.required => i % 2 = 1}
            r == prereq.results
            errors == {i \in DOMAIN r : r[i].status = "error"}
        IN  /\ Len(r) = Cardinality(run)
            /\ {r[i].name : i \in DOMAIN r} = run
            /\ \A i \in DOMAIN r : r[i].message = "Check failed" => r[i].status = "error"
            /\ prereq.summary.ok + prereq.summary.warning + prereq.summary.error
                  + prereq.summary.skipped = Len(r)
            /\ prereq.summary.error = Cardinality(errors)
            /\ prereq.hasErrors <=> prereq.summary.error > 0
            /\ prereq.hasErrors <=> errors # {}

C33_Witness ==
    /\ prereq.pc = "done" /\ ~prereq.required /\ prereq.hasErrors
    /\ \E i \in DOMAIN prereq.results : prereq.results[i].message = "Check failed"
    /\ \E i \in DOMAIN prereq.results : prereq.results[i].status = "skipped"

(* C34: a message rejected by the allow-list leaves the session store as   *)
(* it was: no entry is created or overwritten and no updatedAt is          *)
(* refreshed for a sender that is not allowed to trigger replies.          *)
C34_BlockedLeavesStore ==
    [][res.pc = "saving" /\ Blocked(res.cfg, res.from) => disk' = disk]_vars

(* C35: with calls made one at a time and a readable store, a resolution   *)
(* for session key k changes only the entry of k: the entries of all other *)
(* keys stay as they were and no key is removed, so the set of keys only   *)
(* grows.                                                                  *)
C35_OnlyOwnEntryChanges ==
    [][disk' # disk =>
        LET k == deriveSessionKey(SessionScopeOf(res.cfg), res.from)
        IN  /\ res.pc = "saving"
            /\ DOMAIN disk' = DOMAIN disk \cup {k}
            /\ \A j \in DOMAIN disk \ {k} : disk'[j] = disk[j]]_vars

C35_Witness ==
    /\ Cardinality(DOMAIN disk) = 2
    /\ \E j, k \in DOMAIN disk : disk[j].updatedAt < disk[k].updatedAt
    /\ res.pc # "saving"

(* C36: on the Twilio paths (poll and webhook) each inbound message leads  *)
(* to at most one outbound send, and to none when resolution returned none *)
(* or an empty text; a failed send is logged and not retried.              *)
C36_AtMostOneSend ==
    /\ [](/\ res.sends <= 1
          /\ res.sends = 1 <=> res.pc \in {"sending", "sendLogged"}
          /\ res.sends = 1 => res.result # NoReply /\ res.result # <<>>)
    /\ [][/\ res.pc = "sending" => res'.pc \in {"idle", "sendLogged"}
          /\ res.pc = "sendLogged" => res'.pc = "idle"
          /\ (res.pc = "returned" /\ (res.result = NoReply \/ res.result = <<>>))
                => res'.pc = "idle"]_vars

C36_Witness ==
    /\ res.pc = "sendLogged" /\ res.sends = 1
    /\ res.from = UndefStr
    /\ resolved = MaxResolutions

(* C37: the push monitor holds at most one open listener at any time: a    *)
(* new listener is created only after the previous one has reported close  *)
(* and has been closed, over any sequence of closes, reconnects and        *)
(* cancellations.                                                          *)
C37_OneOpenListener ==
    /\ Cardinality({i \in DOMAIN listeners : ~listeners[i].closed}) <= 1
    /\ Cardinality(ActiveListeners) <= 1
    /\ \A i \in DOMAIN listeners :
          (i < Len(listeners) \/ pushPc \in {"top", "connecting", "sleeping"}) =>
              listeners[i].remote = "closed" /\ listeners[i].closed

C37_Witness ==
    /\ Len(listeners) = 2
    /\ pushPc = "racing" /\ aborted /\ ~sigint
    /\ listeners[1].remote = "closed" /\ listeners[1].closed
    /\ ActiveListeners = {2}

StepsPassed == {hook.passed[i] : i \in DOMAIN hook.passed}

(* C38: in the `up` bring-up the local webhook server is started only      *)
(* after the tunnel (Funnel) was enabled and the public hostname resolved: *)
(* if either of these fails, no webhook server has been started and none   *)
(* is left running.                                                        *)
C38_StartAfterTunnel ==
    hook.cmd = "up" =>
        /\ hook.starts <= 1
        /\ (hook.pc = "start" \/ hook.starts > 0) =>
              {"funnel", "hostname"} \subseteq StepsPassed
        /\ "start" \in StepsPassed => hook.starts = 1
        /\ hook.failedAt \in {"funnel", "hostname"} =>
              /\ hook.pc = "failed"
              /\ hook.starts = 0
              /\ "start" \notin StepsPassed

C38_Witness ==
    /\ hook.cmd = "up" /\ hook.pc = "failed"
    /\ hook.failedAt = "hostname"
    /\ hook.passed = <<"preflight", "funnel">>
    /\ hook.starts = 0

(* C39: for any interleaving of concurrent create-profile requests with    *)
(* distinct valid names, no two profiles in the runtime state share a CDP  *)
(* port, and every profile reported as created is present in the persisted *)
(* config.                                                                 *)
C39_ProfilesConsistent ==
    /\ \A m, n \in DOMAIN browser.resolved :
          m # n => browser.resolved[m] # browser.resolved[n]
    /\ \A n \in RequestNames :
          browser.requests[n].pc = "created" => n \in DOMAIN browser.persisted

=============================================================================
